---- MODULE Spec2Model ----
(***************************************************************************)
(* uPycomm (src/upycomm.py): the SLC (PCCC) and Logix (CIP) EtherNet/IP    *)
(* client drivers, as a state machine over one driver instance, the        *)
(* sockets it has created and the PLC at the other end of the socket.      *)
(* Packets are sequences of bytes, built and parsed as the code does.      *)
(* The print server (src/printserveV2_2.py) is a second state machine over *)
(* its own globals.                                                        *)
(***************************************************************************)
EXTENDS Integers, Sequences, FiniteSets, TLC

VARIABLES
    kind,     \* which driver class the instance is: "SLC" or "Logix"
    drv,      \* the instance's attributes (self.*)
    socks,    \* every socket object the instance has created, by id
    plc,      \* the PLC's data table: file type -> element -> 16-bit word
    call,     \* the last public call: its arguments, result and socket traffic
    sent_tns, \* the TNS of each PCCC request handed to socket.send so far
    srv       \* the print server's globals and its position in the script

vars == <<kind, drv, socks, plc, call, sent_tns, srv>>

-----------------------------------------------------------------------------
(* Bounds of the model.                                                    *)

\* connect() may be called while the instance has created fewer sockets
MaxSockets == 1
\* read/write are explored while pccc_tns is below this
MaxTns == 3
\* send_unit_data is explored while conn_sequence is below this
MaxSeq == 4

-----------------------------------------------------------------------------
(* Python values.                                                          *)

None == <<>>
Some(v) == <<v>>
\* the print server's globals before the script runs
ServerOff ==
    [pc |-> "off", sta |-> <<>>, idx |-> 0, plc_dict |-> <<>>, objects |-> <<>>,
     station_to_plc |-> <<>>, pending |-> {}, cur |-> None, retry_count |-> 0,
     connects |-> <<>>, last |-> [op |-> "none", station |-> 0, obj |-> 0]]
\* an exception raised inside a helper (struct.error, IndexError, KeyError,
\* OSError); integer helpers return Raise, byte-string helpers Raised, which
\* no byte string, Some(v) or None equals
Raise == -1
Raised == <<-1, -1>>

Min(a, b) == IF a < b THEN a ELSE b

\* s[a:b], 0-based, clipped as Python clips slices
Slice(s, a, b) == IF a >= Min(b, Len(s)) THEN <<>> ELSE SubSeq(s, a + 1, Min(b, Len(s)))
\* s[a:]
From(s, a) == Slice(s, a, Len(s))
\* s[i], 0-based; IndexError when out of range
At(s, i) == IF i < Len(s) THEN s[i + 1] ELSE Raise

Zeros(n) == [i \in 1..n |-> 0]

\* An unsigned 32-bit value is held as its two 16-bit halves <<low, high>>:
\* TLC's integers are 32-bit signed and cannot hold 0xddccbbaa.
u32(v) == <<v % 65536, v \div 65536>>
U32Zero == <<0, 0>>

\* struct.pack('<H', v), struct.pack('<I', v)
pack_H(v) == <<v % 256, (v \div 256) % 256>>
pack_I(w) == pack_H(w[1]) \o pack_H(w[2])
\* struct.unpack('<H', b)[0], struct.unpack('<I', b)[0]: struct.error unless
\* the buffer has exactly the size of the format
unpack_H(b) == IF Len(b) # 2 THEN Raise ELSE b[1] + 256 * b[2]
unpack_I(b) ==
    IF Len(b) # 4 THEN Raised ELSE <<b[1] + 256 * b[2], b[3] + 256 * b[4]>>

\* x >> n, 1 << n, and the bitwise operators on 16-bit words
RECURSIVE Pow2(_)
Pow2(n) == IF n = 0 THEN 1 ELSE 2 * Pow2(n - 1)
Shr(x, n) == x \div Pow2(n)
\* the shift without the & 1
BitOf_unmasked(x, n) == Shr(x, n)
BitOf(x, n) == Shr(x, n) % 2

RECURSIVE And16(_, _, _)
\* a & b over the low n bits
And16(a, b, n) == IF n = 0 THEN 0 ELSE (a % 2) * (b % 2) + 2 * And16(a \div 2, b \div 2, n - 1)

-----------------------------------------------------------------------------
(* Protocol numbers the code writes as literals.                           *)

CMD_REGISTER_SESSION == 101     \* 0x0065
CMD_UNREGISTER_SESSION == 102   \* 0x0066
CMD_LIST_IDENTITY == 99         \* 0x0063
CMD_SEND_RR_DATA == 111         \* 0x006F
ITEM_CONNECTED_DATA == 177      \* 0xB1
ITEM_UNCONNECTED_DATA == 178    \* 0xB2
SVC_EXECUTE_PCCC == 75          \* 0x4B
SVC_FORWARD_OPEN == 84          \* 0x54
SVC_FORWARD_CLOSE == 78         \* 0x4E
PCCC_REPLY_CMD == 79            \* 0x4F
SLC_CMD_CODE == 15              \* 0x0F
SLC_FNC_READ == 162             \* 0xA2
SLC_FNC_WRITE == 171            \* 0xAB
WRITE_MASK == 65535             \* 0xFFFF
O_TO_T_ID == <<48042, 56780>>   \* 0xddccbbaa
SERIAL_FALLBACK == <<52445, 43707>>   \* 0xAABBCCDD
CONN_SERIAL == <<4105, 6513>>   \* 0x19711009
RPI == u32(200000)
DEFAULT_TIMEOUT == 5
CMD_SEND_UNIT_DATA == 112      \* 0x0070
ITEM_CONNECTED_ADDRESS == 161  \* 0xA1
UNIT_DATA_TIMEOUT == 10

\* self.PCCC_DATA_TYPE, self.PCCC_DATA_SIZE and read/write's file_numbers
PCCC_DATA_TYPE(ft) ==
    CASE ft = "N7" -> 137 [] ft = "B3" -> 133 [] ft = "F8" -> 138
      [] ft = "T4" -> 134 [] ft = "C5" -> 135 [] OTHER -> Raise
PCCC_DATA_SIZE(ft) ==
    CASE ft = "N7" -> 2 [] ft = "B3" -> 2 [] ft = "F8" -> 4
      [] ft = "T4" -> 6 [] ft = "C5" -> 6 [] OTHER -> Raise
file_numbers(ft) ==
    CASE ft = "N7" -> 7 [] ft = "B3" -> 3 [] ft = "F8" -> 8
      [] ft = "T4" -> 4 [] ft = "C5" -> 5 [] OTHER -> 0

-----------------------------------------------------------------------------
(* Sockets.  A socket object is open until close(); it is linked once its  *)
(* connect() to the PLC succeeded.  What the network does with one         *)
(* send/recv exchange is an outcome x: whether send() goes out, and what   *)
(* recv() returns (a byte string, or Raised for a timeout or reset).       *)

Usable(S, s) == s # 0 /\ S[s].open /\ S[s].linked

\* socket.send(pkt): the attempt, and whether the packet went out
Send(S, s, x, pkt) == [pkt |-> pkt, ok |-> Usable(S, s) /\ x.send]

\* socket.recv(n) after that send
Recv(S, s, x, n) ==
    IF Usable(S, s) /\ x.recv # Raised THEN Slice(x.recv, 0, n) ELSE Raised

\* the traffic of one send followed, if it went out, by one recv
Traffic(snd, response) ==
    [tx |-> <<snd>>, rx |-> IF snd.ok /\ response # Raised THEN <<response>> ELSE <<>>]

-----------------------------------------------------------------------------
(* SLC driver: session handshake.                                          *)

\* SLC.__init__
SLC_init ==
    [socket |-> 0, session_handle |-> U32Zero, connected |-> FALSE, conn_sequence |-> 2,
     o_to_t_connection_id |-> U32Zero, t_to_o_connection_id |-> U32Zero, pccc_tns |-> 1,
     timeout |-> DEFAULT_TIMEOUT, serial_number |-> SERIAL_FALLBACK]

\* the 24-byte encapsulation header with a zero sender context
Header24(command, length, session_handle) ==
    pack_H(command) \o pack_H(length) \o pack_I(session_handle) \o pack_I(U32Zero)
        \o Zeros(8) \o pack_I(U32Zero)

\* the success test of SLC.register_session on the received bytes
SLC_register_ok(response) ==
    /\ Len(response) >= 8
    /\ unpack_I(Slice(response, 8, 12)) # Raised
    /\ unpack_H(Slice(response, 0, 2)) = CMD_REGISTER_SESSION
    /\ unpack_I(Slice(response, 8, 12)) = U32Zero

SLC_register_session(self, S, x) ==
    LET packet == Header24(CMD_REGISTER_SESSION, 4, U32Zero) \o pack_H(1) \o pack_H(0)
        snd == Send(S, self.socket, x, packet)
        response == IF snd.ok THEN Recv(S, self.socket, x, 28) ELSE Raised
        ok == response # Raised /\ SLC_register_ok(response)
    IN  [self |-> IF ok
                  THEN [self EXCEPT !.session_handle = unpack_I(Slice(response, 4, 8))]
                  ELSE self,
         ret |-> ok,
         io |-> Traffic(snd, response)]

SLC_list_identity_skipped(self, S, x) ==
    [self |-> self, ret |-> FALSE, io |-> [tx |-> <<>>, rx |-> <<>>]]

SLC_list_identity(self, S, x) ==
    LET packet == Header24(CMD_LIST_IDENTITY, 0, U32Zero)
        snd == Send(S, self.socket, x, packet)
        response == IF snd.ok THEN Recv(S, self.socket, x, 1024) ELSE Raised
    IN  [self |-> self,
         ret |-> response # Raised /\ Len(response) > 28,
         io |-> Traffic(snd, response)]

SLC_create_send_rr_data(self, cip_data) ==
    LET packet_data == pack_I(U32Zero) \o pack_H(0) \o pack_H(2) \o pack_H(0) \o pack_H(0)
                         \o pack_H(ITEM_UNCONNECTED_DATA) \o pack_H(Len(cip_data)) \o cip_data
    IN  Header24(CMD_SEND_RR_DATA, Len(packet_data), self.session_handle) \o packet_data

RECURSIVE forward_open_items(_, _, _)
\* the item loop of SLC.forward_open: <<"ok", t_to_o id>> on success, "none"
\* on a failure status or no 0xB2 item, "raised" on an exception
forward_open_items(response, offset, remaining) ==
    IF remaining = 0 THEN <<"none", U32Zero>>
    ELSE LET item_type == unpack_H(Slice(response, offset, offset + 2))
             item_length == unpack_H(Slice(response, offset + 2, offset + 4))
             o == offset + 4
             status == At(response, o + 2)
             ext_status_size == At(response, o + 3)
             idoff == o + 3 + 1 + ext_status_size
             id == unpack_I(Slice(response, idoff, idoff + 4))
         IN  IF item_type = Raise \/ item_length = Raise THEN <<"raised", U32Zero>>
             ELSE IF item_type = ITEM_UNCONNECTED_DATA
                  THEN IF At(response, o) = Raise \/ status = Raise
                       THEN <<"raised", U32Zero>>
                       ELSE IF status # 0 THEN <<"none", U32Zero>>
                       ELSE IF ext_status_size = Raise \/ id = Raised
                            THEN <<"raised", U32Zero>>
                       ELSE <<"ok", id>>
                  ELSE forward_open_items(response, o + item_length, remaining - 1)

SLC_forward_open(self, S, x) ==
    LET self1 == [self EXCEPT !.o_to_t_connection_id = O_TO_T_ID]
        cip_data == <<SVC_FORWARD_OPEN, 2, 32, 6, 36, 1, 10, 249>>
                      \o pack_I(self1.o_to_t_connection_id) \o pack_I(U32Zero)
                      \o pack_H(6513) \o pack_H(4105) \o pack_I(CONN_SERIAL)
                      \o <<0>> \o <<0, 0, 0>>
                      \o pack_I(RPI) \o pack_H(17396) \o pack_I(RPI) \o pack_H(17396)
                      \o <<163, 3, 32, 2, 36, 1, 44, 1>>
        packet == SLC_create_send_rr_data(self1, cip_data)
        snd == Send(S, self.socket, x, packet)
        response == IF snd.ok THEN Recv(S, self.socket, x, 1024) ELSE Raised
        item_count == unpack_H(Slice(response, 30, 32))
        got == IF response = Raised \/ Len(response) < 24 THEN <<"none", U32Zero>>
               ELSE IF item_count = Raise THEN <<"raised", U32Zero>>
               ELSE forward_open_items(response, 32, item_count)
        ok == got[1] = "ok"
    IN  [self |-> IF ok THEN [self1 EXCEPT !.t_to_o_connection_id = got[2]] ELSE self1,
         ret |-> ok,
         io |-> Traffic(snd, response)]

SLC_forward_close(self, S, x) ==
    LET cip_data == <<SVC_FORWARD_CLOSE, 2, 32, 6, 36, 1, 10, 249>>
                      \o pack_H(6513) \o pack_H(4105) \o pack_I(CONN_SERIAL)
                      \o <<3, 32, 2, 36, 1, 44, 1>>
        packet == SLC_create_send_rr_data(self, cip_data)
        snd == Send(S, self.socket, x, packet)
        response == IF snd.ok THEN Recv(S, self.socket, x, 1024) ELSE Raised
    IN  IF self.o_to_t_connection_id = U32Zero
        THEN [tx |-> <<>>, rx |-> <<>>]
        ELSE Traffic(snd, response)

SLC_unregister_session(self, S, x) ==
    LET packet == Header24(CMD_UNREGISTER_SESSION, 0, self.session_handle)
    IN  IF self.session_handle = U32Zero
        THEN [tx |-> <<>>, rx |-> <<>>]
        ELSE [tx |-> <<Send(S, self.socket, x, packet)>>, rx |-> <<>>]

-----------------------------------------------------------------------------
(* SLC driver: PCCC requests and replies.                                  *)

\* the bytes both builders put before the function code; tns is the
\* transaction number taken from self.pccc_tns before it is advanced
pccc_prefix(self, tns) ==
    <<SVC_EXECUTE_PCCC, 2, 32, 103, 36, 1, 7, 9, 16>> \o pack_I(self.serial_number)
        \o <<SLC_CMD_CODE>> \o pack_H(tns) \o <<0>>

\* self.pccc_tns after a builder ran: advanced before anything can raise
next_tns(tns) == (tns + 1) % 65536

\* SLC.create_pccc_command: the request bytes, or Raised (KeyError on a file
\* type outside the tables)
SLC_create_pccc_command(self, file_type, file_number, element, element_count) ==
    IF PCCC_DATA_SIZE(file_type) = Raise THEN Raised
    ELSE pccc_prefix(self, self.pccc_tns)
           \o <<SLC_FNC_READ, PCCC_DATA_SIZE(file_type) * element_count, file_number,
                PCCC_DATA_TYPE(file_type)>>
           \o pack_H(element)

\* the magnitude of the value in place of its two's complement
write_data_word_magnitude(file_type, value) ==
    (IF value < 0 THEN 0 - value ELSE value) % 65536

\* the data word of a write request: value & 0xFFFF after the N7 sign fix
write_data_word(file_type, value) ==
    (IF file_type = "N7" /\ value < 0 THEN value + 65536 ELSE value) % 65536

\* the write request with the data word placed before the mask
SLC_create_pccc_write_command_data_first(self, file_type, file_number, element, value) ==
    IF PCCC_DATA_SIZE(file_type) = Raise THEN Raised
    ELSE pccc_prefix(self, self.pccc_tns)
           \o <<SLC_FNC_WRITE, PCCC_DATA_SIZE(file_type), file_number,
                PCCC_DATA_TYPE(file_type)>>
           \o pack_H(element)
           \o pack_H(write_data_word(file_type, value))
           \o pack_H(WRITE_MASK)

\* SLC.create_pccc_write_command
SLC_create_pccc_write_command(self, file_type, file_number, element, value) ==
    IF PCCC_DATA_SIZE(file_type) = Raise THEN Raised
    ELSE pccc_prefix(self, self.pccc_tns)
           \o <<SLC_FNC_WRITE, PCCC_DATA_SIZE(file_type), file_number,
                PCCC_DATA_TYPE(file_type)>>
           \o pack_H(element)
           \o pack_H(WRITE_MASK)
           \o pack_H(write_data_word(file_type, value))

\* SLC.send_rr_data_pccc: ret is the response, or None when the send or the
\* recv raised or fewer than 24 bytes came back
SLC_send_rr_data_pccc(self, S, x, cip_data) ==
    LET packet == SLC_create_send_rr_data(self, cip_data)
        snd == Send(S, self.socket, x, packet)
        response == IF snd.ok THEN Recv(S, self.socket, x, 2048) ELSE Raised
    IN  [ret |-> IF response # Raised /\ Len(response) >= 24 THEN Some(response) ELSE None,
         io |-> Traffic(snd, response)]

\* the Send Unit Data packet whose 0xB1 item length leaves out the 2-byte
\* sequence prefix
SLC_unit_data_packet_short_item(self, cip_data) ==
    LET data_with_seq == pack_H(self.conn_sequence) \o cip_data
        packet_data == pack_I(U32Zero) \o pack_H(0) \o pack_H(2)
                         \o pack_H(ITEM_CONNECTED_ADDRESS) \o pack_H(4)
                         \o pack_I(self.o_to_t_connection_id)
                         \o pack_H(ITEM_CONNECTED_DATA) \o pack_H(Len(cip_data))
                         \o data_with_seq
    IN  pack_H(CMD_SEND_UNIT_DATA) \o pack_H(Len(packet_data)) \o pack_I(self.session_handle)
          \o pack_I(U32Zero) \o <<95, 119, 116, 51, 50, 101, 116, 104>> \o pack_I(U32Zero)
          \o packet_data

\* SLC.send_unit_data.  conn_sequence advances before the send; the socket
\* timeout is raised to 10 s for the recv and put back when the recv returns
\* or raises socket.timeout (timed_out), not when it raises anything else
SLC_unit_data_packet(self, cip_data) ==
    LET data_with_seq == pack_H(self.conn_sequence) \o cip_data
        packet_data == pack_I(U32Zero) \o pack_H(0) \o pack_H(2)
                         \o pack_H(ITEM_CONNECTED_ADDRESS) \o pack_H(4)
                         \o pack_I(self.o_to_t_connection_id)
                         \o pack_H(ITEM_CONNECTED_DATA) \o pack_H(Len(data_with_seq))
                         \o data_with_seq
    IN  pack_H(CMD_SEND_UNIT_DATA) \o pack_H(Len(packet_data)) \o pack_I(self.session_handle)
          \o pack_I(U32Zero) \o <<95, 119, 116, 51, 50, 101, 116, 104>> \o pack_I(U32Zero)
          \o packet_data

\* send_unit_data advancing conn_sequence only once the packet went out
SLC_send_unit_data_advance_on_send(self, S, x, timed_out, cip_data) ==
    LET snd == Send(S, self.socket, x, SLC_unit_data_packet(self, cip_data))
        self1 == IF snd.ok
                 THEN [self EXCEPT !.conn_sequence = (self.conn_sequence + 1) % 65536]
                 ELSE self
        response == IF snd.ok THEN Recv(S, self.socket, x, 2048) ELSE Raised
    IN  [self |-> self1,
         socks |-> IF snd.ok /\ response = Raised /\ ~timed_out
                   THEN [S EXCEPT ![self.socket].timeout = UNIT_DATA_TIMEOUT]
                   ELSE S,
         ret |-> IF response # Raised /\ Len(response) >= 24 THEN Some(response) ELSE None,
         io |-> Traffic(snd, response)]

SLC_send_unit_data(self, S, x, timed_out, cip_data) ==
    LET self1 == [self EXCEPT !.conn_sequence = (self.conn_sequence + 1) % 65536]
        snd == Send(S, self.socket, x, SLC_unit_data_packet(self, cip_data))
        response == IF snd.ok THEN Recv(S, self.socket, x, 2048) ELSE Raised
    IN  [self |-> self1,
         socks |-> IF snd.ok /\ response = Raised /\ ~timed_out
                   THEN [S EXCEPT ![self.socket].timeout = UNIT_DATA_TIMEOUT]
                   ELSE S,
         ret |-> IF response # Raised /\ Len(response) >= 24 THEN Some(response) ELSE None,
         io |-> Traffic(snd, response)]

RECURSIVE pccc_scan_any_sts(_, _)
\* the scan for the reply CMD byte without the test of the STS byte
pccc_scan_any_sts(response, offset) ==
    IF offset >= Len(response) THEN None
    ELSE IF response[offset + 1] = PCCC_REPLY_CMD
         THEN IF offset + 1 + 3 > Len(response) THEN None
              ELSE IF offset + 4 < Len(response) THEN Some(From(response, offset + 4))
              ELSE None
         ELSE pccc_scan_any_sts(response, offset + 1)

RECURSIVE pccc_scan(_, _)
\* the while loop of parse_pccc_response from the end of the extended status
pccc_scan(response, offset) ==
    IF offset >= Len(response) THEN None
    ELSE IF response[offset + 1] = PCCC_REPLY_CMD
         THEN IF offset + 1 + 3 > Len(response) THEN None
              ELSE IF response[offset + 1 + 2 + 1] # 0 THEN None
              ELSE IF offset + 4 < Len(response) THEN Some(From(response, offset + 4))
              ELSE None
         ELSE pccc_scan(response, offset + 1)

RECURSIVE pccc_items(_, _, _)
\* the item loop of parse_pccc_response; an exception inside is returned as
\* None by the enclosing try
pccc_items(response, offset, remaining) ==
    IF remaining = 0 THEN None
    ELSE IF offset + 4 > Len(response) THEN None
    ELSE LET item_type == unpack_H(Slice(response, offset, offset + 2))
             item_length == unpack_H(Slice(response, offset + 2, offset + 4))
             o == IF item_type = ITEM_CONNECTED_DATA THEN offset + 4 + 2 ELSE offset + 4
             status == At(response, o + 2)
             ext_status_size == At(response, o + 3)
         IN  IF item_type = ITEM_CONNECTED_DATA \/ item_type = ITEM_UNCONNECTED_DATA
             THEN IF status = Raise THEN None
                  ELSE IF status # 0 THEN None
                  ELSE IF ext_status_size = Raise THEN None
                  ELSE pccc_scan(response, o + 3 + 1 + ext_status_size)
             ELSE pccc_items(response, offset + 4 + item_length, remaining - 1)

\* SLC.parse_pccc_response: Some(data bytes) or None
SLC_parse_pccc_response(response) ==
    IF Len(response) < 10 THEN None
    ELSE IF unpack_H(Slice(response, 30, 32)) = Raise THEN None
    ELSE pccc_items(response, 32, unpack_H(Slice(response, 30, 32)))

\* the value of the parsed data without the N7 signed reinterpretation
read_value_unsigned(file_type, data, bit_number) ==
    LET value == unpack_H(Slice(data, 0, 2))
    IN  IF bit_number # None THEN BitOf(value, bit_number[1]) ELSE value

\* lines 657-671 of SLC.read: the value returned for the parsed data
read_value(file_type, data, bit_number) ==
    LET value == unpack_H(Slice(data, 0, 2))
    IN  IF bit_number # None THEN BitOf(value, bit_number[1])
        ELSE IF file_type = "B3" THEN value
        ELSE IF file_type = "N7" /\ value > 32767 THEN value - 65536
        ELSE value

\* SLC.read past the connected test
SLC_read_body(self, S, x, file_type, element_number, bit_number, element_count) ==
    LET file_number == file_numbers(file_type)
        pccc_cmd == SLC_create_pccc_command(self, file_type, file_number,
                                            element_number, element_count)
        self1 == [self EXCEPT !.pccc_tns = next_tns(self.pccc_tns)]
        sent == SLC_send_rr_data_pccc(self1, S, x, pccc_cmd)
        data == IF sent.ret = None THEN None ELSE SLC_parse_pccc_response(sent.ret[1])
    IN  IF pccc_cmd = Raised
        THEN [self |-> self1, ret |-> None, io |-> [tx |-> <<>>, rx |-> <<>>]]
        ELSE [self |-> self1,
              ret |-> IF data # None /\ Len(data[1]) >= 2
                      THEN Some(read_value(file_type, data[1], bit_number))
                      ELSE None,
              io |-> sent.io]

\* lines 716-731 of SLC.write: the result once the request was handed to
\* send_rr_data_pccc
write_result(response) == response # None

\* SLC.write past the connected test
SLC_write_body(self, S, x, file_type, element_number, value, bit_number) ==
    LET file_number == file_numbers(file_type)
        pccc_cmd == SLC_create_pccc_write_command(self, file_type, file_number,
                                                  element_number, value)
        self1 == [self EXCEPT !.pccc_tns = next_tns(self.pccc_tns)]
        sent == SLC_send_rr_data_pccc(self1, S, x, pccc_cmd)
    IN  IF bit_number # None
        THEN \* self.read_tag does not exist on SLC: AttributeError, caught
             [self |-> self, ret |-> Some(FALSE), io |-> [tx |-> <<>>, rx |-> <<>>]]
        ELSE IF pccc_cmd = Raised
        THEN [self |-> self1, ret |-> Some(FALSE), io |-> [tx |-> <<>>, rx |-> <<>>]]
        ELSE [self |-> self1, ret |-> Some(write_result(sent.ret)), io |-> sent.io]

-----------------------------------------------------------------------------
(* Logix driver.                                                           *)

SVC_READ_TAG == 76              \* 0x4C
SVC_WRITE_TAG == 77             \* 0x4D
SVC_UNCONNECTED_SEND == 82      \* 0x52
REPLY_READ_TAG == 204           \* 0xCC
REPLY_WRITE_TAG == 205          \* 0xCD
REPLY_UNCONNECTED_SEND == 210   \* 0xD2
CIP_BOOL == 193                 \* 0xC1
CIP_SINT == 194
CIP_INT == 195
CIP_DINT == 196
CIP_LINT == 197
CIP_USINT == 198
CIP_UINT == 199
CIP_UDINT == 200
CIP_ULINT == 201
CIP_REAL == 202
CIP_LREAL == 203                \* 0xCB

\* b'_pycomm_'
LogixContext == <<95, 112, 121, 99, 111, 109, 109, 95>>

\* Logix.__init__
Logix_init(slot, use_routing) ==
    [socket |-> 0, session_handle |-> U32Zero, connected |-> FALSE,
     timeout |-> DEFAULT_TIMEOUT, slot |-> slot, use_routing |-> use_routing,
     context |-> LogixContext, originator_serial |-> SERIAL_FALLBACK]

\* the success test of Logix.register_session on the received bytes
Logix_register_ok(response) == Len(response) >= 28

Logix_register_session(self, S, x) ==
    LET packet == pack_H(CMD_REGISTER_SESSION) \o pack_H(4) \o pack_I(U32Zero)
                    \o pack_I(U32Zero) \o self.context \o pack_I(U32Zero)
                    \o pack_H(1) \o pack_H(0)
        snd == Send(S, self.socket, x, packet)
        response == IF snd.ok THEN Recv(S, self.socket, x, 1024) ELSE Raised
        ok == response # Raised /\ Logix_register_ok(response)
    IN  [self |-> IF ok
                  THEN [self EXCEPT !.session_handle = unpack_I(Slice(response, 4, 8))]
                  ELSE self,
         ret |-> ok,
         io |-> Traffic(snd, response)]

\* the packet Logix.send_rr_data builds around cip_data
Logix_rr_packet(self, cip_data) ==
    LET cpf_data == pack_I(U32Zero) \o pack_H(0) \o pack_H(2) \o pack_H(0) \o pack_H(0)
                      \o pack_H(ITEM_UNCONNECTED_DATA) \o pack_H(Len(cip_data)) \o cip_data
    IN  pack_H(CMD_SEND_RR_DATA) \o pack_H(Len(cpf_data)) \o pack_I(self.session_handle)
          \o pack_I(U32Zero) \o self.context \o pack_I(U32Zero) \o cpf_data

\* Logix.send_rr_data: ret is the response, or None
Logix_send_rr_data(self, S, x, cip_data) ==
    LET snd == Send(S, self.socket, x, Logix_rr_packet(self, cip_data))
        response == IF snd.ok THEN Recv(S, self.socket, x, 2048) ELSE Raised
    IN  [ret |-> IF response # Raised /\ Len(response) > 24 THEN Some(response) ELSE None,
         io |-> Traffic(snd, response)]

\* Logix.build_tag_path; a tag name is its UTF-8 bytes
build_tag_path(tag_name) ==
    <<145, Len(tag_name)>> \o tag_name \o (IF Len(tag_name) % 2 = 1 THEN <<0>> ELSE <<>>)

\* the wrapper whose size field counts the route path as well
wrap_with_routing_total_size(self, cip_command) ==
    IF ~self.use_routing THEN cip_command
    ELSE <<SVC_UNCONNECTED_SEND, 2, 32, 6, 36, 1, 10, 5>> \o pack_H(Len(cip_command) + 6)
           \o cip_command \o <<1, 0, 32, 2, 36, self.slot>>

\* Logix.wrap_with_routing
wrap_with_routing(self, cip_command) ==
    IF ~self.use_routing THEN cip_command
    ELSE <<SVC_UNCONNECTED_SEND, 2, 32, 6, 36, 1, 10, 5>> \o pack_H(Len(cip_command))
           \o cip_command \o <<1, 0, 32, 2, 36, self.slot>>

\* struct.unpack of a little-endian integer: '<B'/'<H'/'<I' unsigned,
\* '<b'/'<h'/'<i' two's complement (the top byte carries the sign)
RECURSIVE le_unsigned(_)
le_unsigned(b) == IF b = <<>> THEN 0 ELSE b[1] + 256 * le_unsigned(Tail(b))
RECURSIVE le_signed(_)
le_signed(b) ==
    IF Len(b) = 1 THEN (IF b[1] >= 128 THEN b[1] - 256 ELSE b[1])
    ELSE b[1] + 256 * le_signed(Tail(b))

\* Logix.decode_value: Some(value), None for a type it does not know, Raised
\* when the data is too short (IndexError / struct.error)
decode_value(data_type, data) ==
    LET need(n) == Len(Slice(data, 0, n)) = n
    IN  CASE data_type = CIP_BOOL ->
                IF need(1) THEN Some(data[1] # 0) ELSE Raised
          [] data_type = CIP_SINT ->
                IF need(1) THEN Some(le_signed(Slice(data, 0, 1))) ELSE Raised
          [] data_type = CIP_INT ->
                IF need(2) THEN Some(le_signed(Slice(data, 0, 2))) ELSE Raised
          [] data_type = CIP_DINT ->
                IF need(4) THEN Some(le_signed(Slice(data, 0, 4))) ELSE Raised
          [] data_type = CIP_UINT ->
                IF need(2) THEN Some(le_unsigned(Slice(data, 0, 2))) ELSE Raised
          [] data_type = CIP_UDINT ->
                IF need(4) THEN Some(le_unsigned(Slice(data, 0, 4))) ELSE Raised
          [] data_type = CIP_REAL ->
                IF need(4) THEN Some([f32 |-> Slice(data, 0, 4)]) ELSE Raised
          [] OTHER -> None

\* the embedded reply taken to follow one byte per extended-status word
reply_offset_bytes(response, o) ==
    IF At(response, o) = Raise \/ At(response, o + 2) = Raise THEN Raise
    ELSE IF At(response, o) = REPLY_UNCONNECTED_SEND
         THEN IF At(response, o + 3) = Raise THEN Raise
              ELSE o + 4 + At(response, o + 3)
         ELSE o

\* what the three Logix reply parsers share once they stand on a 0xB2 item at
\* offset o: where the Read/Write Tag reply starts (the embedded reply of a
\* 0xD2 wrapper, or o itself), or Raise
reply_offset(response, o) ==
    IF At(response, o) = Raise \/ At(response, o + 2) = Raise THEN Raise
    ELSE IF At(response, o) = REPLY_UNCONNECTED_SEND
         THEN IF At(response, o + 3) = Raise THEN Raise
              ELSE o + 4 + At(response, o + 3) * 2
         ELSE o

RECURSIVE read_items(_, _, _)
\* the item loop of Logix.parse_read_response: Some(value), None, or Raised
read_items(response, offset, remaining) ==
    IF remaining = 0 THEN None
    ELSE LET item_type == unpack_H(Slice(response, offset, offset + 2))
             item_length == unpack_H(Slice(response, offset + 2, offset + 4))
             o == offset + 4
             e == reply_offset(response, o)
             routed == At(response, o) = REPLY_UNCONNECTED_SEND
             good == At(response, e) = REPLY_READ_TAG /\ At(response, e + 2) = 0
             data_type == unpack_H(Slice(response, e + 4, e + 6))
         IN  IF item_type = Raise \/ item_length = Raise THEN Raised
             ELSE IF item_type # ITEM_UNCONNECTED_DATA
                  THEN read_items(response, o + item_length, remaining - 1)
             ELSE IF e = Raise THEN Raised
             ELSE IF routed /\ (At(response, e) = Raise \/ At(response, e + 2) = Raise)
                  THEN Raised
             ELSE IF good
                  THEN IF data_type = Raise THEN Raised
                       ELSE decode_value(data_type, From(response, e + 6))
             ELSE IF routed
                  THEN read_items(response, o + item_length, remaining - 1)
             ELSE None

\* Logix.parse_read_response: the value read() returns, as Some(value) or None
Logix_parse_read_response(response) ==
    LET item_count == unpack_H(Slice(response, 30, 32))
        got == IF item_count = Raise THEN Raised ELSE read_items(response, 32, item_count)
    IN  IF got = Raised THEN None ELSE got

\* the Read Tag request of Logix.read and Logix._read_tag_type
read_tag_request(self, tag_name, element_count) ==
    LET tag_path == build_tag_path(tag_name)
    IN  wrap_with_routing(self, <<SVC_READ_TAG, Len(tag_path) \div 2>> \o tag_path
                                  \o pack_H(element_count))

\* Logix.read past the connected test
Logix_read_body(self, S, x, tag_name, element_count) ==
    LET sent == Logix_send_rr_data(self, S, x, read_tag_request(self, tag_name, element_count))
    IN  [self |-> self,
         ret |-> IF sent.ret = None THEN None ELSE Logix_parse_read_response(sent.ret[1]),
         io |-> sent.io]

\* struct.pack of an integer in n little-endian bytes, signed or unsigned;
\* struct.error (Raised) when the value does not fit
RECURSIVE le_bytes(_, _)
\* the n low bytes of v in two's complement, least significant first
le_bytes(v, n) == IF n = 0 THEN <<>> ELSE <<v % 256>> \o le_bytes(v \div 256, n - 1)
\* whether struct.pack accepts v for an n-byte format; every integer of the
\* model lies within the signed 32-bit range
fits(v, n, signed) ==
    IF n >= 4 THEN signed \/ v >= 0
    ELSE IF signed THEN 0 - Pow2(8 * n - 1) <= v /\ v <= Pow2(8 * n - 1) - 1
    ELSE 0 <= v /\ v <= Pow2(8 * n) - 1
pack_int(v, n, signed) == IF fits(v, n, signed) THEN le_bytes(v, n) ELSE Raised

\* struct.pack('<f', v) and struct.pack('<d', v) of an integer v that the
\* format holds exactly (|v| < 2^20): sign, biased exponent, fraction
RECURSIVE ilog2(_)
ilog2(n) == IF n <= 1 THEN 0 ELSE 1 + ilog2(n \div 2)
\* the top 32 bits of the format without its sign bit; fbits is the number
\* of fraction bits among them (23 of a float, 20 of a double)
ieee_high(v, ebits, fbits) ==
    LET a == IF v < 0 THEN 0 - v ELSE v
        e == ilog2(a)
    IN  IF a = 0 THEN 0
        ELSE (e + Pow2(ebits - 1) - 1) * Pow2(fbits) + (a - Pow2(e)) * Pow2(fbits - e)
with_sign(b, v) == [b EXCEPT ![Len(b)] = IF v < 0 THEN @ + 128 ELSE @]
pack_f(v) == with_sign(le_bytes(ieee_high(v, 8, 23), 4), v)
pack_d(v) == <<0, 0, 0, 0>> \o with_sign(le_bytes(ieee_high(v, 11, 20), 4), v)

\* a Python value is tagged with its type: [t |-> "int", v |-> 42]; True is
\* [t |-> "bool", v |-> 1], since a bool is the integer 0 or 1 to struct.pack;
\* [t |-> "float", v |-> 2] is 2.0
as_int(value) == value.v
\* struct.pack of an integer format refuses a float (struct.error)
pack_arg(value, n, signed) ==
    IF value.t = "float" THEN Raised ELSE pack_int(value.v, n, signed)
truthy(value) == value.v # 0

\* Logix.encode_value: (encoded bytes, type code) as [ok, data, type]; ok is
\* FALSE when it raises (ValueError / struct.error)
EncodeRaised == [ok |-> FALSE, data |-> <<>>, type |-> 0]
Encoded(data, code) ==
    IF data = Raised THEN EncodeRaised ELSE [ok |-> TRUE, data |-> data, type |-> code]
\* encode_value without the bool test of the default branch: True and False
\* are integers and go out as DINT
encode_value_bool_as_int(value, force_type) ==
    IF force_type # None
    THEN CASE force_type[1] = CIP_BOOL ->
                  Encoded(<<IF truthy(value) THEN 1 ELSE 0>>, CIP_BOOL)
           [] force_type[1] = CIP_SINT -> Encoded(pack_arg(value, 1, TRUE), CIP_SINT)
           [] force_type[1] = CIP_INT -> Encoded(pack_arg(value, 2, TRUE), CIP_INT)
           [] force_type[1] = CIP_DINT -> Encoded(pack_arg(value, 4, TRUE), CIP_DINT)
           [] force_type[1] = CIP_REAL -> Encoded(pack_f(as_int(value)), CIP_REAL)
           [] OTHER -> EncodeRaised
    ELSE IF value.t = "float" THEN Encoded(pack_f(value.v), CIP_REAL)
    ELSE Encoded(pack_int(value.v, 4, TRUE), CIP_DINT)
encode_value(value, force_type) ==
    IF force_type # None
    THEN CASE force_type[1] = CIP_BOOL ->
                  Encoded(<<IF truthy(value) THEN 1 ELSE 0>>, CIP_BOOL)
           [] force_type[1] = CIP_SINT -> Encoded(pack_arg(value, 1, TRUE), CIP_SINT)
           [] force_type[1] = CIP_INT -> Encoded(pack_arg(value, 2, TRUE), CIP_INT)
           [] force_type[1] = CIP_DINT -> Encoded(pack_arg(value, 4, TRUE), CIP_DINT)
           [] force_type[1] = CIP_LINT -> Encoded(pack_arg(value, 8, TRUE), CIP_LINT)
           [] force_type[1] = CIP_USINT -> Encoded(pack_arg(value, 1, FALSE), CIP_USINT)
           [] force_type[1] = CIP_UINT -> Encoded(pack_arg(value, 2, FALSE), CIP_UINT)
           [] force_type[1] = CIP_UDINT -> Encoded(pack_arg(value, 4, FALSE), CIP_UDINT)
           [] force_type[1] = CIP_ULINT -> Encoded(pack_arg(value, 8, FALSE), CIP_ULINT)
           [] force_type[1] = CIP_REAL -> Encoded(pack_f(as_int(value)), CIP_REAL)
           [] force_type[1] = CIP_LREAL -> Encoded(pack_d(as_int(value)), CIP_LREAL)
           [] OTHER -> EncodeRaised
    ELSE IF value.t = "bool"
         THEN Encoded(<<IF truthy(value) THEN 1 ELSE 0>>, CIP_BOOL)
    ELSE IF value.t = "int"
         THEN IF fits(value.v, 4, TRUE)    \* -2147483648 <= value <= 2147483647
              THEN Encoded(pack_int(value.v, 4, TRUE), CIP_DINT)
              ELSE EncodeRaised
    ELSE IF value.t = "float" THEN Encoded(pack_f(value.v), CIP_REAL)
    ELSE EncodeRaised

RECURSIVE type_items(_, _, _)
\* the item loop of Logix._read_tag_type: Some(data_type), None, or Raised
type_items(response, offset, remaining) ==
    IF remaining = 0 THEN None
    ELSE LET item_type == unpack_H(Slice(response, offset, offset + 2))
             item_length == unpack_H(Slice(response, offset + 2, offset + 4))
             o == offset + 4
             e == reply_offset(response, o)
             routed == At(response, o) = REPLY_UNCONNECTED_SEND
             good == At(response, e) = REPLY_READ_TAG /\ At(response, e + 2) = 0
             data_type == unpack_H(Slice(response, e + 4, e + 6))
         IN  IF item_type = Raise \/ item_length = Raise THEN Raised
             ELSE IF item_type # ITEM_UNCONNECTED_DATA
                  THEN type_items(response, o + item_length, remaining - 1)
             ELSE IF e = Raise THEN Raised
             ELSE IF routed /\ (At(response, e) = Raise \/ At(response, e + 2) = Raise)
                  THEN Raised
             ELSE IF good
                  THEN IF data_type = Raise THEN Raised ELSE Some(data_type)
             ELSE type_items(response, o + item_length, remaining - 1)

\* Logix._read_tag_type: ret is Some(data_type) or None
Logix_read_tag_type(self, S, x, tag_name) ==
    LET sent == Logix_send_rr_data(self, S, x, read_tag_request(self, tag_name, 1))
        response == sent.ret[1]
        item_count == unpack_H(Slice(response, 30, 32))
        got == IF item_count = Raise THEN Raised ELSE type_items(response, 32, item_count)
    IN  [ret |-> IF sent.ret = None \/ got = Raised THEN None ELSE got,
         io |-> sent.io]

RECURSIVE write_items(_, _, _)
\* the item loop of Logix.parse_write_response: TRUE, FALSE, or Raise
write_items(response, offset, remaining) ==
    IF remaining = 0 THEN FALSE
    ELSE LET item_type == unpack_H(Slice(response, offset, offset + 2))
             item_length == unpack_H(Slice(response, offset + 2, offset + 4))
             o == offset + 4
             e == reply_offset(response, o)
             routed == At(response, o) = REPLY_UNCONNECTED_SEND
         IN  IF item_type = Raise \/ item_length = Raise THEN FALSE
             ELSE IF item_type # ITEM_UNCONNECTED_DATA
                  THEN write_items(response, o + item_length, remaining - 1)
             ELSE IF e = Raise THEN FALSE
             ELSE IF routed /\ (At(response, e) = Raise \/ At(response, e + 2) = Raise)
                  THEN FALSE
             ELSE At(response, e) = REPLY_WRITE_TAG /\ At(response, e + 2) = 0

\* Logix.parse_write_response: an exception inside is returned as False
Logix_parse_write_response(response) ==
    LET item_count == unpack_H(Slice(response, 30, 32))
    IN  IF item_count = Raise THEN FALSE ELSE write_items(response, 32, item_count)

\* Logix.write from the Write Tag exchange on: the reply decides the result
write_reply(self, dio, sent) ==
    [self |-> self,
     ret |-> Some(IF sent.ret = None THEN FALSE
                  ELSE Logix_parse_write_response(sent.ret[1])),
     io |-> [tx |-> dio.tx \o sent.io.tx, rx |-> dio.rx \o sent.io.rx]]

\* Logix.write from the encoded value on: False when encode_value raised,
\* else the Write Tag request goes out
write_encoded(self, S, x2, tag_path, dio, enc) ==
    IF ~enc.ok
    THEN [self |-> self, ret |-> Some(FALSE), io |-> dio]
    ELSE write_reply(self, dio,
             Logix_send_rr_data(self, S, x2,
                 wrap_with_routing(self, <<SVC_WRITE_TAG, Len(tag_path) \div 2>> \o tag_path
                                           \o pack_H(enc.type) \o pack_H(1) \o enc.data)))

\* the write that reads the tag's type and then does not use it
write_detected_unused(self, S, x2, tag_name, value, data_type, detect, detected) ==
    write_encoded(self, S, x2, build_tag_path(tag_name),
                  IF detect THEN detected.io ELSE [tx |-> <<>>, rx |-> <<>>],
                  encode_value(value, data_type))

\* Logix.write from the type detection on: a detected type replaces data_type
write_detected(self, S, x2, tag_name, value, data_type, detect, detected) ==
    write_encoded(self, S, x2, build_tag_path(tag_name),
                  IF detect THEN detected.io ELSE [tx |-> <<>>, rx |-> <<>>],
                  encode_value(value, IF detect /\ detected.ret # None THEN detected.ret
                                      ELSE data_type))

\* Logix.write past the connected test; x1 is the exchange of the type
\* detection read, x2 that of the Write Tag
Logix_write_body(self, S, x1, x2, tag_name, value, data_type, auto_detect) ==
    write_detected(self, S, x2, tag_name, value, data_type,
                   data_type = None /\ auto_detect,
                   Logix_read_tag_type(self, S, x1, tag_name))

\* Logix.disconnect
Logix_disconnect_body(self, S, x) ==
    LET packet == pack_H(CMD_UNREGISTER_SESSION) \o pack_H(0) \o pack_I(self.session_handle)
                    \o Zeros(16)
        snd == Send(S, self.socket, x, packet)
    IN  IF self.socket = 0
        THEN [self |-> [self EXCEPT !.connected = FALSE], socks |-> S,
              io |-> [tx |-> <<>>, rx |-> <<>>]]
        ELSE IF ~snd.ok
        THEN [self |-> self, socks |-> S, io |-> [tx |-> <<snd>>, rx |-> <<>>]]
        ELSE [self |-> [self EXCEPT !.socket = 0, !.connected = FALSE],
              socks |-> [S EXCEPT ![self.socket].open = FALSE],
              io |-> [tx |-> <<snd>>, rx |-> <<>>]]

\* socket.socket(...) followed by settimeout(self.timeout)
NewSocket(self, link) ==
    [open |-> TRUE, linked |-> link, timeout |-> self.timeout, rcvbuf |-> <<>>]

\* Logix.connect; mk: socket.socket() returned, link: socket.connect() returned
Logix_connect_body(self, S, mk, link, x1) ==
    LET S1 == Append(S, NewSocket(self, link))
        self1 == [self EXCEPT !.socket = Len(S1)]
        r1 == Logix_register_session(self1, S1, x1)
    IN  IF ~mk THEN [self |-> self, socks |-> S, ret |-> FALSE,
                     io |-> [tx |-> <<>>, rx |-> <<>>]]
        ELSE IF ~link THEN [self |-> self1, socks |-> S1, ret |-> FALSE,
                            io |-> [tx |-> <<>>, rx |-> <<>>]]
        ELSE IF ~r1.ret THEN [self |-> r1.self, socks |-> S1, ret |-> FALSE, io |-> r1.io]
        ELSE [self |-> [r1.self EXCEPT !.connected = TRUE], socks |-> S1, ret |-> TRUE,
              io |-> r1.io]

\* SLC.connect
SLC_connect_body(self, S, mk, link, x1, x2, x3) ==
    LET S1 == Append(S, NewSocket(self, link))
        self1 == [self EXCEPT !.socket = Len(S1)]
        r1 == SLC_register_session(self1, S1, x1)
        r2 == SLC_list_identity(r1.self, S1, x2)
        r3 == SLC_forward_open(r2.self, S1, x3)
        io3 == [tx |-> r1.io.tx \o r2.io.tx \o r3.io.tx, rx |-> r1.io.rx \o r2.io.rx \o r3.io.rx]
    IN  IF ~mk THEN [self |-> [self EXCEPT !.connected = FALSE], socks |-> S, ret |-> FALSE,
                     io |-> [tx |-> <<>>, rx |-> <<>>]]
        ELSE IF ~link THEN [self |-> [self1 EXCEPT !.connected = FALSE], socks |-> S1,
                            ret |-> FALSE, io |-> [tx |-> <<>>, rx |-> <<>>]]
        ELSE IF ~r1.ret THEN [self |-> r1.self, socks |-> S1, ret |-> FALSE, io |-> r1.io]
        ELSE IF ~r3.ret THEN [self |-> r3.self, socks |-> S1, ret |-> FALSE, io |-> io3]
        ELSE [self |-> [r3.self EXCEPT !.connected = TRUE], socks |-> S1, ret |-> TRUE,
              io |-> io3]

\* SLC.disconnect
SLC_disconnect_body(self, S, x1, x2) ==
    LET fc == SLC_forward_close(self, S, x1)
        us == SLC_unregister_session(self, S, x2)
    IN  IF self.socket = 0
        THEN [self |-> self, socks |-> S, io |-> [tx |-> <<>>, rx |-> <<>>]]
        ELSE [self |-> [self EXCEPT !.connected = FALSE],
              socks |-> [S EXCEPT ![self.socket].open = FALSE],
              io |-> [tx |-> fc.tx \o us.tx, rx |-> fc.rx \o us.rx]]

\* SLC.read without its connected test
SLC_read_unguarded(self, S, x, file_type, element_number, bit_number, element_count) ==
    SLC_read_body(self, S, x, file_type, element_number, bit_number, element_count)

\* the connected test that opens read and write in both drivers
SLC_read(self, S, x, file_type, element_number, bit_number, element_count) ==
    IF ~self.connected
    THEN [self |-> self, ret |-> None, io |-> [tx |-> <<>>, rx |-> <<>>]]
    ELSE SLC_read_body(self, S, x, file_type, element_number, bit_number, element_count)

SLC_write(self, S, x, file_type, element_number, value, bit_number) ==
    IF ~self.connected
    THEN [self |-> self, ret |-> Some(FALSE), io |-> [tx |-> <<>>, rx |-> <<>>]]
    ELSE SLC_write_body(self, S, x, file_type, element_number, value, bit_number)

Logix_read(self, S, x, tag_name, element_count) ==
    IF ~self.connected
    THEN [self |-> self, ret |-> None, io |-> [tx |-> <<>>, rx |-> <<>>]]
    ELSE Logix_read_body(self, S, x, tag_name, element_count)

Logix_write(self, S, x1, x2, tag_name, value, data_type, auto_detect) ==
    IF ~self.connected
    THEN [self |-> self, ret |-> Some(FALSE), io |-> [tx |-> <<>>, rx |-> <<>>]]
    ELSE Logix_write_body(self, S, x1, x2, tag_name, value, data_type, auto_detect)

-----------------------------------------------------------------------------
(* The PLC at the other end of the socket: the replies recv() can return.  *)
(* Replies have the layout the parsers above read.                         *)

PlcHandle == <<48879, 57005>>   \* the session handle the PLC grants (0xDEADBEEF)
OtherHandle == <<4660, 0>>      \* a handle field carried by a refusing reply
PlcConnId == <<13124, 4386>>    \* the connection id of a Forward Open reply
STS_ERROR == 16             \* a PCCC STS other than 0 (0x10)
CIP_ERROR == 8              \* a CIP general status other than 0

PlcHeader(command, length, status, handle) ==
    pack_H(command) \o pack_H(length) \o pack_I(handle) \o pack_I(u32(status))
        \o Zeros(8) \o pack_I(U32Zero)

PlcRegisterReply(command, status, handle) ==
    PlcHeader(command, 4, status, handle) \o pack_H(1) \o pack_H(0)

\* a Send RR Data reply: null address item, then the 0xB2 item holding cip
PlcRRReply(cip) ==
    LET body == pack_I(U32Zero) \o pack_H(0) \o pack_H(2) \o pack_H(0) \o pack_H(0)
                  \o pack_H(ITEM_UNCONNECTED_DATA) \o pack_H(Len(cip)) \o cip
    IN  PlcHeader(CMD_SEND_RR_DATA, Len(body), 0, PlcHandle) \o body

RegisterReplies ==
    { PlcRegisterReply(CMD_REGISTER_SESSION, 0, PlcHandle),
      PlcRegisterReply(CMD_REGISTER_SESSION, 0, U32Zero),
      PlcRegisterReply(CMD_REGISTER_SESSION, 1, OtherHandle),
      PlcRegisterReply(CMD_SEND_RR_DATA, 0, OtherHandle),
      Slice(PlcRegisterReply(CMD_REGISTER_SESSION, 0, PlcHandle), 0, 10),
      <<>> }

IdentityReplies ==
    { PlcHeader(CMD_LIST_IDENTITY, 10, 0, U32Zero) \o Zeros(10),
      PlcHeader(CMD_LIST_IDENTITY, 0, 0, U32Zero) }

PlcForwardOpenReply(status) ==
    PlcRRReply(<<SVC_FORWARD_OPEN + 128, 0, status, 0>>
                 \o (IF status = 0 THEN pack_I(PlcConnId) \o pack_I(O_TO_T_ID) ELSE <<>>))

\* a successful Forward Open reply that carries one word of extended status
PlcForwardOpenReplyExt ==
    PlcRRReply(<<SVC_FORWARD_OPEN + 128, 0, 0, 1>> \o <<1, 0>>
                 \o pack_I(PlcConnId) \o pack_I(O_TO_T_ID))

ForwardOpenReplies ==
    { PlcForwardOpenReply(0), PlcForwardOpenReply(1), PlcForwardOpenReplyExt,
      Slice(PlcForwardOpenReply(0), 0, 44), <<>> }

ForwardCloseReplies == { PlcRRReply(<<SVC_FORWARD_CLOSE + 128, 0, 0, 0>>) }

\* what the network can do with one exchange whose replies are drawn from R
Outcomes(R) ==
    {[send |-> FALSE, recv |-> Raised]} \cup {[send |-> TRUE, recv |-> r] : r \in R \cup {Raised}}

\* the PLC's reading of an Execute PCCC request (the CIP bytes of the item)
PlcFile(code) == CASE code = 137 -> "N7" [] code = 133 -> "B3" [] OTHER -> "?"
ReqFnc(cip) == cip[18]
ReqFile(cip) == PlcFile(cip[21])
ReqElement(cip) == unpack_H(Slice(cip, 21, 23))
ReqMask(cip) == unpack_H(Slice(cip, 23, 25))
ReqData(cip) == unpack_H(Slice(cip, 25, 27))
ReqKnown(table, cip) ==
    ReqFile(cip) \in DOMAIN table /\ ReqElement(cip) \in DOMAIN table[ReqFile(cip)]

\* an Execute PCCC reply: requestor id echo, then CMD 0x4F, DST, SRC, STS, data
PlcPcccReply(status, sts, data) ==
    PlcRRReply(<<SVC_EXECUTE_PCCC + 128, 0, status, 0>>
                 \o (IF status = 0
                     THEN <<7, 9, 16>> \o pack_I(SERIAL_FALLBACK) \o <<PCCC_REPLY_CMD, 0, 0, sts>>
                            \o data
                     ELSE <<>>))

\* the replies of a PLC that refuses the request: a CIP general status, or
\* a PCCC STS followed by two bytes of error detail
PlcCipErrorReply == PlcPcccReply(CIP_ERROR, 0, <<>>)
PlcStsErrorReply == PlcPcccReply(0, STS_ERROR, <<1, 0>>)

\* the reply of a PLC that serves the request from its data table
PlcGoodReply(table, cip) ==
    IF ~ReqKnown(table, cip) THEN PlcStsErrorReply
    ELSE IF ReqFnc(cip) = SLC_FNC_READ
         THEN PlcPcccReply(0, 0, pack_H(table[ReqFile(cip)][ReqElement(cip)]))
    ELSE PlcPcccReply(0, 0, <<>>)

\* the same reply with one word of extended status, 0x4F00, after the
\* general status
PlcGoodReplyExt(table, cip) ==
    LET good == PlcGoodReply(table, cip)
        ext == Slice(good, 0, 43) \o <<1, 0, PCCC_REPLY_CMD>> \o From(good, 44)
    IN  Slice(ext, 0, 2) \o pack_H(Len(ext) - 24) \o Slice(ext, 4, 38)
          \o pack_H(Len(ext) - 40) \o From(ext, 40)

PcccReplies(table, cip) ==
    { PlcGoodReply(table, cip), PlcGoodReplyExt(table, cip), PlcCipErrorReply,
      PlcStsErrorReply, Slice(PlcGoodReply(table, cip), 0, 26), <<>> }

\* what the exchange of a request may do: anything the network allows, or,
\* with served, only the reply of a reachable PLC that serves the request
PcccExchanges(served, table, cip) ==
    IF served THEN {[send |-> TRUE, recv |-> PlcGoodReply(table, cip)]}
    ELSE Outcomes(PcccReplies(table, cip))

\* the data table after the PLC executed a masked write request
PlcStore(table, cip) ==
    LET old == table[ReqFile(cip)][ReqElement(cip)]
        keep == And16(old, 65535 - ReqMask(cip), 16)
        put == And16(ReqData(cip), ReqMask(cip), 16)
    IN  [table EXCEPT ![ReqFile(cip)][ReqElement(cip)] = keep + put]

\* the table after one exchange x of a request: a write is stored when the
\* PLC answers it with success, and may or may not have been when no answer
\* came back (lost)
PlcAfter(table, cip, snd_ok, x, lost) ==
    IF cip # Raised /\ snd_ok /\ ReqFnc(cip) = SLC_FNC_WRITE /\ ReqKnown(table, cip)
       /\ (x.recv \in {PlcGoodReply(table, cip), PlcGoodReplyExt(table, cip)}
             \/ (x.recv = Raised /\ lost))
    THEN PlcStore(table, cip)
    ELSE table

\* Read Tag / Write Tag replies, direct or inside a 0xD2 wrapper
PlcTagReply(service, status, payload, routed) ==
    PlcRRReply((IF routed THEN <<REPLY_UNCONNECTED_SEND, 0, 0, 0>> ELSE <<>>)
                 \o <<service, 0, status, 0>> \o payload)

TagReadPayloads ==
    { pack_H(CIP_INT) \o <<42, 0>>, pack_H(CIP_DINT) \o <<255, 255, 255, 255>>,
      pack_H(CIP_SINT) \o <<128>> }

\* the replies to a Read Tag when the tag holds one of the payloads P
LogixReadReplies(self, P) ==
    { PlcTagReply(REPLY_READ_TAG, 0, p, self.use_routing) : p \in P }
      \cup { PlcTagReply(REPLY_READ_TAG, CIP_ERROR, <<>>, self.use_routing),
             Slice(PlcTagReply(REPLY_READ_TAG, 0, <<>>, FALSE), 0, 26) }

\* the replies to the type detection read of a write
LogixDetectReplies(self) ==
    { PlcTagReply(REPLY_READ_TAG, 0, pack_H(CIP_INT) \o <<42, 0>>, self.use_routing),
      PlcTagReply(REPLY_READ_TAG, CIP_ERROR, <<>>, self.use_routing) }

LogixWriteReplies(self) ==
    { PlcTagReply(REPLY_WRITE_TAG, 0, <<>>, self.use_routing),
      PlcTagReply(REPLY_WRITE_TAG, CIP_ERROR, <<>>, self.use_routing),
      Slice(PlcTagReply(REPLY_WRITE_TAG, 0, <<>>, FALSE), 0, 26) }

-----------------------------------------------------------------------------
(* The calls a program makes on the instance, and their arguments.         *)

Bits == 0..15
AllBits == {None} \cup {Some(b) : b \in Bits}
FewBits == {None, Some(3)}
Elements == {0, 1}
WriteValues == {-32768, -1, 0, 1, 32767}
Words == {0, 1, 32, 32767, 32768, 65535}
TagNames == { <<84, 97, 103>> }
TagValues == { [t |-> "int", v |-> 42], [t |-> "int", v |-> 70000] }
\* (data_type, auto_detect) of a write: detect, default type, explicit type
WriteModes ==
    { [data_type |-> None, auto_detect |-> TRUE],
      [data_type |-> None, auto_detect |-> FALSE],
      [data_type |-> Some(CIP_INT), auto_detect |-> TRUE] }

\* the outcome given to a call that reaches no send
NoExchange == [send |-> FALSE, recv |-> Raised]

PlcTables(W) == {[ft \in {"N7", "B3"} |-> [e \in Elements |-> w]] : w \in W}

Init ==
    /\ kind \in {"SLC", "Logix"}
    /\ drv \in IF kind = "SLC" THEN {SLC_init}
               ELSE {Logix_init(0, FALSE), Logix_init(3, TRUE)}
    /\ socks = <<>>
    /\ plc \in PlcTables({32768})
    /\ call = [op |-> "init", args |-> <<>>, ret |-> None, tx |-> <<>>, rx |-> <<>>]
    /\ sent_tns = <<>>
    /\ srv = ServerOff

\* the TNS field of a transmitted Execute PCCC packet: 24 header bytes, 16
\* bytes of item list, 14 bytes of CIP path and requestor id, then the TNS
PcccTns(pkt) == unpack_H(Slice(pkt, 54, 56))
TnsOf(tx) == [i \in 1..Len(tx) |-> PcccTns(tx[i].pkt)]

Called(op, args, r) ==
    call' = [op |-> op, args |-> args, ret |-> r.ret, tx |-> r.io.tx, rx |-> r.io.rx]

SLC_connect_within(N) ==
    /\ kind = "SLC"
    /\ Len(socks) < N
    /\ \E mk \in BOOLEAN :
         \E link \in IF mk THEN BOOLEAN ELSE {FALSE} :
           \E x1 \in IF link THEN Outcomes(RegisterReplies) ELSE {NoExchange} :
             \* the later exchanges happen only once register_session succeeded
             LET registered ==
                   Len(SLC_connect_body(drv, socks, mk, link, x1, NoExchange,
                                        NoExchange).io.tx) > 1
             IN  \E x2 \in IF registered THEN Outcomes(IdentityReplies) ELSE {NoExchange},
                    x3 \in IF registered THEN Outcomes(ForwardOpenReplies)
                           ELSE {NoExchange} :
                   LET r == SLC_connect_body(drv, socks, mk, link, x1, x2, x3)
                   IN  /\ drv' = r.self
                       /\ socks' = r.socks
                       /\ Called("connect", <<>>, [ret |-> Some(r.ret), io |-> r.io])
    /\ UNCHANGED <<srv, kind, plc, sent_tns>>

\* connect() while fewer than MaxSockets sockets were created
SLC_connect_call == SLC_connect_within(MaxSockets)

SLC_disconnect_call ==
    /\ kind = "SLC"
    /\ \E x1 \in IF drv.socket # 0 /\ drv.o_to_t_connection_id # U32Zero
                  THEN Outcomes(ForwardCloseReplies) ELSE {NoExchange},
          x2 \in IF drv.socket # 0 /\ drv.session_handle # U32Zero
                  THEN Outcomes({}) ELSE {NoExchange} :
         LET r == SLC_disconnect_body(drv, socks, x1, x2)
         IN  /\ drv' = r.self
             /\ socks' = r.socks
             /\ Called("disconnect", <<>>, [ret |-> None, io |-> r.io])
    /\ UNCHANGED <<srv, kind, plc, sent_tns>>

\* read(file_type, element_number, bit_number) with the arguments drawn from
\* FT, EL and BA; served restricts the exchange to a PLC that serves it
SLC_read_call(FT, EL, BA, served) ==
    /\ kind = "SLC"
    /\ drv.connected => drv.pccc_tns < MaxTns
    /\ \E file_type \in FT, element_number \in EL, bit_number \in BA :
         LET cip == SLC_create_pccc_command(drv, file_type, file_numbers(file_type),
                                            element_number, 1)
         IN  \E x \in IF drv.connected /\ cip # Raised
                      THEN PcccExchanges(served, plc, cip) ELSE {NoExchange} :
               LET r == SLC_read(drv, socks, x, file_type, element_number, bit_number, 1)
               IN  /\ drv' = r.self
                   /\ sent_tns' = sent_tns \o TnsOf(r.io.tx)
                   /\ Called("read", [file_type |-> file_type,
                                      element_number |-> element_number,
                                      bit_number |-> bit_number], r)
    /\ UNCHANGED <<srv, kind, socks, plc>>

SLC_write_call(FT, EL, BA, V, served) ==
    /\ kind = "SLC"
    /\ drv.connected => drv.pccc_tns < MaxTns
    /\ \E file_type \in FT, element_number \in EL, value \in V, bit_number \in BA :
         LET cip == SLC_create_pccc_write_command(drv, file_type, file_numbers(file_type),
                                                  element_number, value)
         IN  \E x \in IF drv.connected /\ cip # Raised /\ bit_number = None
                      THEN PcccExchanges(served, plc, cip) ELSE {NoExchange} :
               \E lost \in IF x.send /\ x.recv = Raised THEN BOOLEAN ELSE {FALSE} :
                 LET r == SLC_write(drv, socks, x, file_type, element_number, value,
                                    bit_number)
                 IN  /\ drv' = r.self
                     /\ sent_tns' = sent_tns \o TnsOf(r.io.tx)
                     /\ plc' = IF r.io.tx = <<>> THEN plc
                               ELSE PlcAfter(plc, cip, r.io.tx[1].ok, x, lost)
                     /\ Called("write", [file_type |-> file_type,
                                         element_number |-> element_number,
                                         value |-> value, bit_number |-> bit_number], r)
    /\ UNCHANGED <<srv, kind, socks>>

Logix_connect_within(N) ==
    /\ kind = "Logix"
    /\ Len(socks) < N
    /\ \E mk \in BOOLEAN :
         \E link \in IF mk THEN BOOLEAN ELSE {FALSE} :
           \E x1 \in IF link THEN Outcomes(RegisterReplies) ELSE {NoExchange} :
             LET r == Logix_connect_body(drv, socks, mk, link, x1)
             IN  /\ drv' = r.self
                 /\ socks' = r.socks
                 /\ Called("connect", <<>>, [ret |-> Some(r.ret), io |-> r.io])
    /\ UNCHANGED <<srv, kind, plc, sent_tns>>

Logix_connect_call == Logix_connect_within(MaxSockets)

Logix_disconnect_call ==
    /\ kind = "Logix"
    /\ \E x \in IF drv.socket # 0 THEN Outcomes({}) ELSE {NoExchange} :
         LET r == Logix_disconnect_body(drv, socks, x)
         IN  /\ drv' = r.self
             /\ socks' = r.socks
             /\ Called("disconnect", <<>>, [ret |-> None, io |-> r.io])
    /\ UNCHANGED <<srv, kind, plc, sent_tns>>

\* read(tag_name) of a tag whose type and value are one of the payloads P
Logix_read_call(P) ==
    /\ kind = "Logix"
    /\ \E tag_name \in TagNames :
         \E x \in IF drv.connected THEN Outcomes(LogixReadReplies(drv, P)) ELSE {NoExchange} :
           LET r == Logix_read(drv, socks, x, tag_name, 1)
           IN  /\ drv' = r.self
               /\ Called("read", [tag_name |-> tag_name], r)
    /\ UNCHANGED <<srv, kind, socks, plc, sent_tns>>

\* write(tag_name, value, data_type, auto_detect) with the value drawn from V
\* and (data_type, auto_detect) from M
Logix_write_call(V, M) ==
    /\ kind = "Logix"
    /\ \E tag_name \in TagNames, value \in V, mode \in M :
         \E x1 \in IF drv.connected /\ mode.data_type = None /\ mode.auto_detect
                   THEN Outcomes(LogixDetectReplies(drv)) ELSE {NoExchange} :
           \E x2 \in IF drv.connected THEN Outcomes(LogixWriteReplies(drv))
                     ELSE {NoExchange} :
             LET r == Logix_write(drv, socks, x1, x2, tag_name, value, mode.data_type,
                                  mode.auto_detect)
             IN  /\ drv' = r.self
                 /\ Called("write", [tag_name |-> tag_name, value |-> value,
                                     data_type |-> mode.data_type,
                                     auto_detect |-> mode.auto_detect], r)
    /\ UNCHANGED <<srv, kind, socks, plc, sent_tns>>

\* every call of both drivers, any network behaviour, few argument values
Next ==
    \/ SLC_connect_call
    \/ SLC_disconnect_call
    \/ SLC_read_call({"N7", "X9"}, {0}, FewBits, FALSE)
    \/ SLC_write_call({"N7", "X9"}, {0}, FewBits, {-1}, FALSE)
    \/ Logix_connect_call
    \/ Logix_disconnect_call
    \/ Logix_read_call(TagReadPayloads)
    \/ Logix_write_call(TagValues, WriteModes)

Spec == Init /\ [][Next]_vars

-----------------------------------------------------------------------------
(* The data words of an SLC session: an instance whose connect() succeeded *)
(* reads and writes N7 and B3 words of a PLC that serves every request.    *)

Granted(reply) == [send |-> TRUE, recv |-> reply]
\* the result of connect() on a new instance when the PLC accepts every step
ConnectedSLC ==
    SLC_connect_body(SLC_init, <<>>, TRUE, TRUE,
                     Granted(PlcRegisterReply(CMD_REGISTER_SESSION, 0, PlcHandle)),
                     Granted(PlcHeader(CMD_LIST_IDENTITY, 10, 0, U32Zero) \o Zeros(10)),
                     Granted(PlcForwardOpenReply(0)))

InitWords ==
    /\ kind = "SLC"
    /\ drv = ConnectedSLC.self
    /\ socks = ConnectedSLC.socks
    /\ plc \in PlcTables(Words)
    /\ call = [op |-> "connect", args |-> <<>>, ret |-> Some(ConnectedSLC.ret),
               tx |-> ConnectedSLC.io.tx, rx |-> ConnectedSLC.io.rx]
    /\ sent_tns = <<>>
    /\ srv = ServerOff

NextWords ==
    \/ SLC_read_call({"N7", "B3"}, Elements, AllBits, TRUE)
    \/ SLC_write_call({"N7"}, Elements, {None}, WriteValues, TRUE)

SpecWords == InitWords /\ [][NextWords]_vars

-----------------------------------------------------------------------------
(* Properties.  A step of Spec is one call; call' describes it and drv,    *)
(* socks, plc are the state it started from.                               *)

IsRead == call'.op = "read"
IsWrite == call'.op = "write"

\* C1: on a driver whose connected flag is False, read returns None and
\* write returns False, nothing is handed to the socket, and pccc_tns,
\* conn_sequence and session_handle keep their values (both drivers)
C1_NotConnectedStep ==
    (~drv.connected /\ (IsRead \/ IsWrite)) =>
        /\ call'.ret = (IF IsRead THEN None ELSE Some(FALSE))
        /\ call'.tx = <<>>
        /\ drv'.session_handle = drv.session_handle
        /\ kind = "SLC" => /\ drv'.pccc_tns = drv.pccc_tns
                           /\ drv'.conn_sequence = drv.conn_sequence
C1_NotConnected == [][C1_NotConnectedStep]_vars

\* a write refused by an SLC driver that registered a session earlier and is
\* not connected now (after disconnect(), or after a failed Forward Open)
C1_Witness ==
    /\ kind = "SLC" /\ ~drv.connected /\ drv.session_handle = PlcHandle
    /\ call.op = "write" /\ call.ret = Some(FALSE) /\ call.tx = <<>>

IsConnect == call'.op = "connect"

\* what the PLC's bytes say, read off the wire layout: a Register Session
\* reply grants the session when its command is 0x0065 and its status is 0
RegisterGranted(reply) ==
    /\ Len(reply) >= 12
    /\ unpack_H(Slice(reply, 0, 2)) = CMD_REGISTER_SESSION
    /\ Slice(reply, 8, 12) = Zeros(4)
HandleOf(reply) == unpack_I(Slice(reply, 4, 8))
\* a Send RR Data packet whose CIP service is Forward Open, and a reply to it
\* with general status 0
IsForwardOpen(pkt) == Len(pkt) > 40 /\ pkt[41] = SVC_FORWARD_OPEN
ForwardOpenGranted(reply) ==
    Len(reply) > 42 /\ reply[41] = SVC_FORWARD_OPEN + 128 /\ reply[43] = 0

\* the call transmitted Register Session and a Forward Open on its socket
\* and the PLC granted both
Established(c) ==
    /\ Len(c.tx) >= 2 /\ Len(c.rx) >= 2
    /\ c.tx[1].ok /\ RegisterGranted(c.rx[1])
    /\ IsForwardOpen(c.tx[Len(c.tx)].pkt) /\ c.tx[Len(c.tx)].ok
    /\ ForwardOpenGranted(c.rx[Len(c.rx)])

\* C2: for both drivers, connected becomes True and connect() returns True
\* only after Register Session succeeded and a Forward Open then succeeded
\* with general status 0 on the same socket
C2_ConnectStep ==
    (IsConnect /\ ((~drv.connected /\ drv'.connected) \/ call'.ret = Some(TRUE)))
        => Established(call')
C2_ConnectedOnlyAfterForwardOpen == [][C2_ConnectStep]_vars

\* C3: for both drivers, register_session latches the reply's session handle
\* exactly when the reply's command is 0x0065 and its status is 0; for any
\* other reply session_handle is not latched and connect() returns False
C3_RegisterStep ==
    (IsConnect /\ call'.tx # <<>> /\ call'.tx[1].ok /\ call'.rx # <<>>) =>
        IF RegisterGranted(call'.rx[1])
        THEN drv'.session_handle = HandleOf(call'.rx[1])
        ELSE call'.ret = Some(FALSE) /\ drv'.session_handle = drv.session_handle
C3_RegisterIffGranted == [][C3_RegisterStep]_vars

\* C4: when a send or a recv fails during a read or write on a connected
\* driver, the socket is closed and connected becomes False
C4_FailureStep ==
    (drv.connected /\ (IsRead \/ IsWrite) /\ call'.tx # <<>>
       /\ Len(call'.rx) < Len(call'.tx))
        => ~drv'.connected /\ ~socks'[drv.socket].open
C4_FailureCloses == [][C4_FailureStep]_vars

\* the replies by which the PLC refuses a read: a non-zero CIP general
\* status or a non-zero PCCC STS
ReadRefused(reply) ==
    \/ reply \in {PlcCipErrorReply, PlcStsErrorReply}
    \/ reply \in {PlcTagReply(REPLY_READ_TAG, CIP_ERROR, <<>>, routed) : routed \in BOOLEAN}

\* the value a 16-bit word w of the data table stands for
WordValue(file_type, w, bit_number) ==
    IF bit_number # None THEN (w \div Pow2(bit_number[1])) % 2
    ELSE IF file_type = "N7" /\ w >= 32768 THEN w - 65536
    ELSE w

\* the value each Read Tag payload of the PLC stands for
TagValue(payload) ==
    CASE payload = pack_H(CIP_INT) \o <<42, 0>> -> 42
      [] payload = pack_H(CIP_DINT) \o <<255, 255, 255, 255>> -> -1
      [] payload = pack_H(CIP_SINT) \o <<128>> -> -128

C5_RefusedStep ==
    (drv.connected /\ IsRead /\ call'.rx # <<>> /\ ReadRefused(call'.rx[1])) =>
        /\ call'.ret = None
        /\ drv'.connected /\ drv'.socket = drv.socket /\ socks'[drv'.socket].open
        /\ drv'.session_handle = drv.session_handle
C5_FollowingStep ==
    (call.op = "read" /\ call.rx # <<>> /\ ReadRefused(call.rx[1]) /\ IsRead) =>
        /\ (kind = "SLC" /\ call'.args.file_type \in DOMAIN plc) =>
             LET a == call'.args
                 w == plc[a.file_type][a.element_number]
             IN  call'.rx = <<PlcPcccReply(0, 0, pack_H(w))>> =>
                     call'.ret = Some(WordValue(a.file_type, w, a.bit_number))
        /\ kind = "Logix" =>
             \A payload \in TagReadPayloads :
                 call'.rx = <<PlcTagReply(REPLY_READ_TAG, 0, payload, drv.use_routing)>> =>
                     call'.ret = Some(TagValue(payload))
\* C5: a read whose reply carries a non-zero CIP general status or a non-zero
\* PCCC STS returns None and leaves the session intact (connected, socket
\* open, session_handle unchanged), and a following read that gets a good
\* reply returns its value
C5_RefusedReadKeepsSession == [][C5_RefusedStep /\ C5_FollowingStep]_vars

\* an SLC read refused with a PCCC STS, with room for a following request
C5_Witness ==
    /\ kind = "SLC" /\ drv.connected /\ socks[drv.socket].open
    /\ call.op = "read" /\ call.rx = <<PlcStsErrorReply>> /\ call.ret = None
    /\ drv.pccc_tns < MaxTns

\* the PLC's reply that reports a write as done
WriteAccepted(reply) ==
    IF kind = "SLC" THEN reply = PlcPcccReply(0, 0, <<>>)
    ELSE reply = PlcTagReply(REPLY_WRITE_TAG, 0, <<>>, drv.use_routing)

\* C6: write returns True only if the PLC's reply to the write request
\* reports success (CIP general status 0 and, for SLC, PCCC STS 0)
C6_WriteStep ==
    (IsWrite /\ call'.ret = Some(TRUE)) =>
        call'.rx # <<>> /\ WriteAccepted(call'.rx[Len(call'.rx)])
C6_TrueOnlyOnSuccess == [][C6_WriteStep]_vars

\* C7: the TNS of the transmitted PCCC requests of an instance starts at 1,
\* increases modulo 65536 from each request to the next, and is never reused
C7_TnsSequence ==
    /\ sent_tns # <<>> => sent_tns[1] = 1
    /\ \A i \in 1..Len(sent_tns) - 1 :
           (sent_tns[i + 1] - sent_tns[i]) % 65536 \in 1..32767
    /\ \A i, j \in 1..Len(sent_tns) : i # j => sent_tns[i] # sent_tns[j]

-----------------------------------------------------------------------------
(* Properties of the data words, under SpecWords.                          *)

\* the PLC answered the read with the word w of its table
ServedWord(w) == call'.rx = <<PlcPcccReply(0, 0, pack_H(w))>>

\* C8: for every v in [-32768, 32767], after write("N7", e, v) against a PLC
\* that stores the transmitted data word, read("N7", e) returns exactly v
C8_RoundTripStep ==
    (/\ call.op = "write" /\ call.ret = Some(TRUE)
     /\ call.args.file_type = "N7" /\ call.args.bit_number = None
     /\ IsRead /\ call'.args.file_type = "N7" /\ call'.args.bit_number = None
     /\ call'.args.element_number = call.args.element_number)
        => call'.ret = Some(call.args.value)
C8_N7RoundTrip == [][C8_RoundTripStep]_vars

\* -32768 read back from an element that held another word before the write
C8_Witness ==
    /\ call.op = "read" /\ call.args.file_type = "N7" /\ call.args.bit_number = None
    /\ call.ret = Some(-32768) /\ sent_tns = <<1, 2>>
    /\ plc["B3"][call.args.element_number] # 32768

\* C9: read without a bit number returns, for an N7 word w, w when
\* w <= 32767 and w - 65536 when w >= 32768; for a B3 word it returns w
C9_WordStep ==
    (IsRead /\ call'.args.bit_number = None) =>
        LET a == call'.args
            w == plc[a.file_type][a.element_number]
        IN  ServedWord(w) =>
                call'.ret = Some(IF a.file_type = "B3" THEN w
                                 ELSE IF w <= 32767 THEN w ELSE w - 65536)
C9_SignedWord == [][C9_WordStep]_vars

\* the N7 word 0xFFFF read as -1
C9_Witness ==
    /\ call.op = "read" /\ call.args.file_type = "N7" /\ call.args.bit_number = None
    /\ plc["N7"][call.args.element_number] = 65535 /\ call.ret = Some(-1)

\* C10: read with bit number b in 0..15 returns (w >> b) & 1 of the raw
\* unsigned word w of the reply, always 0 or 1, for every file type
C10_BitStep ==
    (IsRead /\ call'.args.bit_number # None) =>
        LET a == call'.args
            w == plc[a.file_type][a.element_number]
            b == a.bit_number[1]
        IN  ServedWord(w) =>
                /\ call'.ret = Some((w \div Pow2(b)) % 2)
                /\ call'.ret \in {Some(0), Some(1)}
C10_BitOfRawWord == [][C10_BitStep]_vars

\* bit 15 of the N7 word 0x8000 read as 1
C10_Witness ==
    /\ call.op = "read" /\ call.args.file_type = "N7" /\ call.args.bit_number = Some(15)
    /\ plc["N7"][call.args.element_number] = 32768 /\ call.ret = Some(1)

-----------------------------------------------------------------------------
(* Bit writes of an SLC session: a connected instance writes single bits   *)
(* of N7 and B3 words of a PLC that serves every request.                  *)

NextBits ==
    \/ SLC_write_call({"N7", "B3"}, {0}, {Some(b) : b \in Bits}, {0, 1}, TRUE)
    \/ SLC_read_call({"N7", "B3"}, {0}, {None}, TRUE)

SpecBits == InitWords /\ [][NextBits]_vars

\* the fields of a transmitted Execute PCCC packet: the CIP bytes start at
\* byte 40, the function code is CIP byte 17, then size, file number, type,
\* element number, and for a write the mask and the data word
PktFnc(pkt) == At(pkt, 57)
PktElement(pkt) == unpack_H(Slice(pkt, 61, 63))
PktMask(pkt) == unpack_H(Slice(pkt, 63, 65))
PktData(pkt) == unpack_H(Slice(pkt, 65, 67))

\* the word w with bit b set, cleared
SetBit(w, b) == IF (w \div Pow2(b)) % 2 = 1 THEN w ELSE w + Pow2(b)
ClearBit(w, b) == IF (w \div Pow2(b)) % 2 = 1 THEN w - Pow2(b) ELSE w

\* C11: write(file_type, e, value, bit=b) on a connected driver first
\* transmits a read of the current word; once that read is answered with the
\* word w it transmits exactly one write with mask 0xFFFF and data word w
\* with bit b set (value truthy) or cleared (value falsy); and it returns
\* True once the PLC reports the write as done
C11_BitWriteStep ==
    (/\ kind = "SLC" /\ IsWrite /\ drv.connected /\ call'.args.bit_number # None
     /\ call'.args.file_type \in {"N7", "B3"})
        => LET a == call'.args
               w == plc[a.file_type][a.element_number]
               b == a.bit_number[1]
               tx == call'.tx
               rx == call'.rx
           IN  /\ Len(tx) >= 1
               /\ PktFnc(tx[1].pkt) = SLC_FNC_READ
               /\ PktElement(tx[1].pkt) = a.element_number
               /\ (rx # <<>> /\ rx[1] = PlcPcccReply(0, 0, pack_H(w))) =>
                      /\ Len(tx) = 2
                      /\ PktFnc(tx[2].pkt) = SLC_FNC_WRITE
                      /\ PktMask(tx[2].pkt) = 65535
                      /\ PktData(tx[2].pkt) =
                             (IF a.value # 0 THEN SetBit(w, b) ELSE ClearBit(w, b))
               /\ (Len(rx) = 2 /\ rx[2] = PlcPcccReply(0, 0, <<>>)) =>
                      call'.ret = Some(TRUE)
C11_BitWriteReadsThenWrites == [][C11_BitWriteStep]_vars

\* C12: against a PLC that stores written words, write(ft, e, 1, bit=b)
\* leaves the word with bit b set and the other 15 bits as they were (so a
\* second such write changes nothing), and write(ft, e, 0, bit=b) leaves it
\* with bit b cleared and the other 15 bits as they were
C12_BitStoreStep ==
    (kind = "SLC" /\ IsWrite /\ drv.connected /\ call'.args.bit_number # None)
        => LET a == call'.args
               w == plc[a.file_type][a.element_number]
               b == a.bit_number[1]
           IN  plc'[a.file_type][a.element_number] =
                   (IF a.value # 0 THEN SetBit(w, b) ELSE ClearBit(w, b))
C12_BitWriteIdempotentLocal == [][C12_BitStoreStep]_vars

-----------------------------------------------------------------------------
(* The packet builders on their own: each action applies one builder of an *)
(* instance to arguments drawn from small sets and records the result in   *)
(* call.                                                                   *)

BuildFileTypes == {"N7", "B3", "X9"}
BuildElements == {0, 1, 255}
BuildValues == {-32768, -1, 0, 1, 32767, 40000, 65535, 70000}
\* CIP byte strings handed to the Send RR Data / Send Unit Data builders
Payloads ==
    { <<>>, <<7>>, <<14, 3>>,
      SLC_create_pccc_command(SLC_init, "N7", 7, 0, 1),
      SLC_create_pccc_write_command(SLC_init, "N7", 7, 0, 1) }
\* the values and types of the Write Tag requests handed to wrap_with_routing
BuildTagValues == { [t |-> "bool", v |-> 1], [t |-> "int", v |-> 42] }
BuildTypes == {None, Some(CIP_SINT), Some(CIP_INT)}
\* Read Tag and Write Tag requests as Logix.read and Logix.write build them
InnerCommands ==
    { <<SVC_READ_TAG, Len(build_tag_path(t)) \div 2>> \o build_tag_path(t) \o pack_H(1) :
          t \in TagNames }
      \cup
    { <<SVC_WRITE_TAG, Len(build_tag_path(t)) \div 2>> \o build_tag_path(t)
          \o pack_H(encode_value(v, ft).type) \o pack_H(1) \o encode_value(v, ft).data :
          t \in TagNames, v \in BuildTagValues, ft \in BuildTypes }
UnitDataReplies == { Zeros(30), Zeros(10) }

InitBuild ==
    /\ kind \in {"SLC", "Logix"}
    /\ drv \in IF kind = "SLC" THEN {SLC_init, ConnectedSLC.self}
               ELSE {Logix_init(0, FALSE), Logix_init(3, TRUE)}
    /\ socks = IF drv.socket = 0 THEN <<>> ELSE ConnectedSLC.socks
    /\ plc \in PlcTables({0})
    /\ call = [op |-> "init", args |-> <<>>, ret |-> None, tx |-> <<>>, rx |-> <<>>]
    /\ sent_tns = <<>>
    /\ srv = ServerOff

Built(op, args, ret) ==
    call' = [op |-> op, args |-> args, ret |-> ret, tx |-> <<>>, rx |-> <<>>]

create_pccc_write_command_call ==
    /\ kind = "SLC"
    /\ drv.pccc_tns < MaxTns
    /\ \E file_type \in BuildFileTypes, element \in BuildElements, value \in BuildValues :
         /\ Built("create_pccc_write_command",
                  [file_type |-> file_type, element |-> element, value |-> value],
                  SLC_create_pccc_write_command(drv, file_type, file_numbers(file_type),
                                                element, value))
         /\ drv' = [drv EXCEPT !.pccc_tns = next_tns(drv.pccc_tns)]
    /\ UNCHANGED <<srv, kind, socks, plc, sent_tns>>

create_send_rr_data_call ==
    /\ kind = "SLC"
    /\ \E cip_data \in Payloads :
         Built("create_send_rr_data", cip_data, SLC_create_send_rr_data(drv, cip_data))
    /\ UNCHANGED <<srv, kind, drv, socks, plc, sent_tns>>

\* send_unit_data(cip_data) with cip_data drawn from P
send_unit_data_call(P) ==
    /\ kind = "SLC"
    /\ drv.conn_sequence # MaxSeq
    /\ \E cip_data \in P, x \in Outcomes(UnitDataReplies), timed_out \in BOOLEAN :
         LET r == SLC_send_unit_data(drv, socks, x, timed_out, cip_data)
         IN  /\ drv' = r.self
             /\ socks' = r.socks
             /\ Called("send_unit_data", cip_data, r)
    /\ UNCHANGED <<srv, kind, plc, sent_tns>>

send_rr_data_call ==
    /\ kind = "Logix"
    /\ \E cip_data \in Payloads \cup InnerCommands, x \in Outcomes({Zeros(30)}) :
         Called("send_rr_data", cip_data, Logix_send_rr_data(drv, socks, x, cip_data))
    /\ UNCHANGED <<srv, kind, drv, socks, plc, sent_tns>>

wrap_with_routing_call ==
    /\ kind = "Logix"
    /\ \E cip_command \in InnerCommands \cup {<<>>} :
         Built("wrap_with_routing", cip_command, wrap_with_routing(drv, cip_command))
    /\ UNCHANGED <<srv, kind, drv, socks, plc, sent_tns>>

NextBuild ==
    \/ create_pccc_write_command_call
    \/ create_send_rr_data_call
    \/ send_unit_data_call(Payloads)
    \/ send_rr_data_call
    \/ wrap_with_routing_call

SpecBuild == InitBuild /\ [][NextBuild]_vars

-----------------------------------------------------------------------------
(* Properties of the builders, under SpecBuild.                            *)

\* C13: every PCCC write request the SLC driver builds ends with the element
\* number, then the mask word 0xFFFF, then the data word, and the data word
\* is value mod 65536 (a negative N7 value v is sent as v + 65536)
C13_WriteLayoutStep ==
    (call'.op = "create_pccc_write_command" /\ call'.ret # Raised) =>
        LET cip == call'.ret
            a == call'.args
        IN  /\ Len(cip) >= 6
            /\ Slice(cip, Len(cip) - 6, Len(cip)) =
                   pack_H(a.element) \o pack_H(65535) \o pack_H(a.value % 65536)
            /\ (a.file_type = "N7" /\ a.value < 0) =>
                   unpack_H(Slice(cip, Len(cip) - 2, Len(cip))) = a.value + 65536
C13_MaskThenData == [][C13_WriteLayoutStep]_vars

\* the write request of N7:1 = -32768 ends 01 00, FF FF, 00 80
C13_Witness ==
    /\ call.op = "create_pccc_write_command"
    /\ call.args = [file_type |-> "N7", element |-> 1, value |-> -32768]
    /\ call.ret # Raised
    /\ Slice(call.ret, Len(call.ret) - 6, Len(call.ret)) = <<1, 0, 255, 255, 0, 128>>

\* the length fields of a built packet: the header's length, and the length
\* and data of the item that starts at byte at
HeaderLength(pkt) == unpack_H(Slice(pkt, 2, 4))
ItemType(pkt, at) == unpack_H(Slice(pkt, at, at + 2))
ItemLength(pkt, at) == unpack_H(Slice(pkt, at + 2, at + 4))
ItemData(pkt, at) == From(pkt, at + 4)

\* C14: in every packet built by SLC.create_send_rr_data, Logix.send_rr_data
\* and SLC.send_unit_data the header length field is the number of bytes
\* after the 24-byte header, and the length field of the data item (0xB2, or
\* 0xB1 with its 2-byte sequence prefix) is the number of bytes of its data
C14_LengthStep ==
    /\ call'.op = "create_send_rr_data" =>
           /\ HeaderLength(call'.ret) = Len(call'.ret) - 24
           /\ ItemType(call'.ret, 36) = ITEM_UNCONNECTED_DATA
           /\ ItemLength(call'.ret, 36) = Len(ItemData(call'.ret, 36))
           /\ ItemData(call'.ret, 36) = call'.args
    /\ call'.op = "send_rr_data" =>
           \A i \in 1..Len(call'.tx) :
               /\ HeaderLength(call'.tx[i].pkt) = Len(call'.tx[i].pkt) - 24
               /\ ItemType(call'.tx[i].pkt, 36) = ITEM_UNCONNECTED_DATA
               /\ ItemLength(call'.tx[i].pkt, 36) = Len(ItemData(call'.tx[i].pkt, 36))
               /\ ItemData(call'.tx[i].pkt, 36) = call'.args
    /\ call'.op = "send_unit_data" =>
           \A i \in 1..Len(call'.tx) :
               /\ HeaderLength(call'.tx[i].pkt) = Len(call'.tx[i].pkt) - 24
               /\ ItemType(call'.tx[i].pkt, 40) = ITEM_CONNECTED_DATA
               /\ ItemLength(call'.tx[i].pkt, 40) = Len(ItemData(call'.tx[i].pkt, 40))
               /\ ItemData(call'.tx[i].pkt, 40) = pack_H(drv.conn_sequence) \o call'.args
C14_LengthFields == [][C14_LengthStep]_vars

\* a Send Unit Data packet around a 27-byte request: 0xB1 item of 29 bytes
C14_Witness ==
    /\ call.op = "send_unit_data" /\ Len(call.args) = 27 /\ Len(call.tx) = 1
    /\ ItemLength(call.tx[1].pkt, 40) = 29
    /\ HeaderLength(call.tx[1].pkt) = 49

\* C15: with use_routing, wrap_with_routing(inner) is exactly 52 02 20 06 24
\* 01 0A 05, len(inner) as u16, inner, one pad byte when len(inner) is odd,
\* then 01 00 20 02 24 <slot>
C15_WrapStep ==
    (call'.op = "wrap_with_routing" /\ drv.use_routing) =>
        call'.ret = <<82, 2, 32, 6, 36, 1, 10, 5>> \o pack_H(Len(call'.args))
                      \o call'.args
                      \o (IF Len(call'.args) % 2 = 1 THEN <<0>> ELSE <<>>)
                      \o <<1, 0, 32, 2, 36, drv.slot>>
C15_RoutedWrapperLayout == [][C15_WrapStep]_vars

\* C16: the routed wrapper carries inner verbatim: its u16 at bytes 8..9 is
\* len(inner) and bytes 10 .. 10+len(inner) are inner; without use_routing
\* wrap_with_routing returns inner unchanged
C16_VerbatimStep ==
    call'.op = "wrap_with_routing" =>
        IF drv.use_routing
        THEN /\ unpack_H(Slice(call'.ret, 8, 10)) = Len(call'.args)
             /\ Slice(call'.ret, 10, 10 + Len(call'.args)) = call'.args
        ELSE call'.ret = call'.args
C16_InnerVerbatim == [][C16_VerbatimStep]_vars

\* a routed wrapper around a 13-byte Write Tag request
C16_Witness ==
    /\ call.op = "wrap_with_routing" /\ drv.use_routing
    /\ Len(call.args) = 13 /\ call.args[1] = SVC_WRITE_TAG
    /\ Slice(call.ret, 10, 23) = call.args

-----------------------------------------------------------------------------
(* Tag writes of a Logix session: a connected instance, direct or routed,  *)
(* writes integers, booleans and floats with and without a given type.     *)

\* the result of connect() on a new instance whose registration is granted
ConnectedLogix(slot, use_routing) ==
    Logix_connect_body(Logix_init(slot, use_routing), <<>>, TRUE, TRUE,
                       Granted(PlcRegisterReply(CMD_REGISTER_SESSION, 0, PlcHandle)))

WrittenValues ==
    { [t |-> "int", v |-> 42], [t |-> "int", v |-> -2], [t |-> "int", v |-> 70000],
      [t |-> "bool", v |-> 1], [t |-> "bool", v |-> 0],
      [t |-> "float", v |-> 2], [t |-> "float", v |-> -3] }

\* one tag of each atomic CIP type: type code and value bytes
AtomicReads ==
    { [code |-> CIP_BOOL, data |-> <<1>>],
      [code |-> CIP_SINT, data |-> <<128>>],
      [code |-> CIP_INT, data |-> <<0, 128>>],
      [code |-> CIP_DINT, data |-> <<255, 255, 255, 255>>],
      [code |-> CIP_LINT, data |-> <<254, 255, 255, 255, 255, 255, 255, 255>>],
      [code |-> CIP_USINT, data |-> <<200>>],
      [code |-> CIP_UINT, data |-> <<255, 255>>],
      [code |-> CIP_UDINT, data |-> <<0, 0, 1, 0>>],
      [code |-> CIP_ULINT, data |-> <<7, 0, 0, 0, 0, 0, 0, 0>>],
      [code |-> CIP_REAL, data |-> <<0, 0, 0, 64>>],
      [code |-> CIP_LREAL, data |-> <<0, 0, 0, 0, 0, 0, 0, 64>>] }

InitTags ==
    /\ kind = "Logix"
    /\ \E c \in {ConnectedLogix(0, FALSE), ConnectedLogix(3, TRUE)} :
         /\ drv = c.self
         /\ socks = c.socks
         /\ call = [op |-> "connect", args |-> <<>>, ret |-> Some(c.ret),
                    tx |-> c.io.tx, rx |-> c.io.rx]
    /\ plc \in PlcTables({0})
    /\ sent_tns = <<>>
    /\ srv = ServerOff

NextTags ==
    \/ Logix_write_call(WrittenValues, WriteModes)
    \/ Logix_read_call({pack_H(r.code) \o r.data : r \in AtomicReads})

SpecTags == InitTags /\ [][NextTags]_vars

\* the CIP request a transmitted Logix packet carries: the 0xB2 item data,
\* or with use_routing the message inside the Unconnected Send
InnerCip(pkt) ==
    IF drv.use_routing THEN Slice(pkt, 50, 50 + unpack_H(Slice(pkt, 48, 50)))
    ELSE From(pkt, 40)
IsReadTag(pkt, tag_name) ==
    InnerCip(pkt) = <<SVC_READ_TAG, Len(build_tag_path(tag_name)) \div 2>>
                      \o build_tag_path(tag_name) \o pack_H(1)
IsWriteTag(pkt, tag_name) ==
    Slice(InnerCip(pkt), 0, 2 + Len(build_tag_path(tag_name))) =
        <<SVC_WRITE_TAG, Len(build_tag_path(tag_name)) \div 2>> \o build_tag_path(tag_name)
WriteTagType(pkt, tag_name) ==
    unpack_H(Slice(InnerCip(pkt), 2 + Len(build_tag_path(tag_name)),
                   4 + Len(build_tag_path(tag_name))))
WriteTagData(pkt, tag_name) == From(InnerCip(pkt), 6 + Len(build_tag_path(tag_name)))

IsLogixWrite == kind = "Logix" /\ IsWrite /\ drv.connected
\* the detection read of the write went out and was answered with type INT
DetectedInt ==
    /\ call'.args.data_type = None /\ call'.args.auto_detect
    /\ call'.tx # <<>> /\ call'.tx[1].ok /\ call'.rx # <<>>
    /\ call'.rx[1] = PlcTagReply(REPLY_READ_TAG, 0, pack_H(CIP_INT) \o <<42, 0>>,
                                 drv.use_routing)
FitsInt(value) == value.t # "float" /\ -32768 <= value.v /\ value.v <= 32767

\* C17: write with data_type None and auto_detect True transmits exactly one
\* 1-element Read Tag before the Write Tag, and the Write Tag carries the
\* type of that read's reply with the value at that type's width; with an
\* explicit data_type or auto_detect False no Read Tag is transmitted and
\* one request is sent
C17_DetectStep ==
    IsLogixWrite =>
        LET a == call'.args
            tx == call'.tx
        IN  IF a.data_type = None /\ a.auto_detect
            THEN /\ Len(tx) >= 1 /\ IsReadTag(tx[1].pkt, a.tag_name)
                 /\ \A i \in 2..Len(tx) : ~IsReadTag(tx[i].pkt, a.tag_name)
                 /\ (DetectedInt /\ FitsInt(a.value)) =>
                        /\ Len(tx) = 2
                        /\ IsWriteTag(tx[2].pkt, a.tag_name)
                        /\ WriteTagType(tx[2].pkt, a.tag_name) = CIP_INT
                        /\ WriteTagData(tx[2].pkt, a.tag_name) = le_bytes(a.value.v, 2)
            ELSE /\ \A i \in 1..Len(tx) : ~IsReadTag(tx[i].pkt, a.tag_name)
                 /\ Len(tx) <= 1
                 /\ (a.data_type = None \/ FitsInt(a.value)) =>
                        Len(tx) = 1 /\ IsWriteTag(tx[1].pkt, a.tag_name)
C17_DetectThenWrite == [][C17_DetectStep]_vars

\* write("Tag", 42) on a tag reported as INT: Read Tag, then Write Tag of
\* type 0xC3 with the payload 2A 00, accepted
C17_Witness ==
    /\ kind = "Logix" /\ call.op = "write" /\ call.ret = Some(TRUE)
    /\ call.args.data_type = None /\ call.args.auto_detect
    /\ call.args.value = [t |-> "int", v |-> 42]
    /\ Len(call.tx) = 2
    /\ WriteTagType(call.tx[2].pkt, call.args.tag_name) = CIP_INT
    /\ WriteTagData(call.tx[2].pkt, call.args.tag_name) = <<42, 0>>

\* C18: when write has no explicit type and none was detected (auto_detect
\* False, or the detection read failed) the Write Tag's type is DINT with 4
\* bytes for an integer, REAL for a float and BOOL for a boolean
C18_DefaultStep ==
    (IsLogixWrite /\ call'.args.data_type = None /\ ~DetectedInt) =>
        LET a == call'.args
            tx == call'.tx
            w == tx[Len(tx)].pkt
        IN  /\ tx # <<>> /\ IsWriteTag(w, a.tag_name)
            /\ a.value.t = "int" =>
                   /\ WriteTagType(w, a.tag_name) = CIP_DINT
                   /\ Len(WriteTagData(w, a.tag_name)) = 4
            /\ a.value.t = "float" => WriteTagType(w, a.tag_name) = CIP_REAL
            /\ a.value.t = "bool" => WriteTagType(w, a.tag_name) = CIP_BOOL
C18_DefaultTypes == [][C18_DefaultStep]_vars

\* write("Tag", True, auto_detect=False) goes out as BOOL, one byte 01
C18_Witness ==
    /\ kind = "Logix" /\ call.op = "write"
    /\ call.args.data_type = None /\ ~call.args.auto_detect
    /\ call.args.value = [t |-> "bool", v |-> 1]
    /\ Len(call.tx) = 1
    /\ WriteTagType(call.tx[1].pkt, call.args.tag_name) = CIP_BOOL
    /\ WriteTagData(call.tx[1].pkt, call.args.tag_name) = <<1>>

\* C19: write with an integer outside the range of the type in force (here
\* INT, forced or detected) raises a type-range error to the caller before
\* transmit: no Write Tag is sent and the result is not the ordinary False
C19_RangeStep ==
    (/\ IsLogixWrite /\ call'.args.value.t = "int" /\ ~FitsInt(call'.args.value)
     /\ (call'.args.data_type = Some(CIP_INT) \/ DetectedInt))
        => /\ \A i \in 1..Len(call'.tx) : ~IsWriteTag(call'.tx[i].pkt, call'.args.tag_name)
           /\ call'.ret = Raised
C19_RangeErrorRaised == [][C19_RangeStep]_vars

\* C20: SLC.read and SLC.write with a file type outside {N7, B3, F8, T4, C5}
\* raise an address error to the caller before transmit: no packet is sent
\* and the result is not the None/False sentinel
C20_AddressStep ==
    (/\ kind = "SLC" /\ (IsRead \/ IsWrite) /\ drv.connected
     /\ call'.args.file_type \notin {"N7", "B3", "F8", "T4", "C5"})
        => call'.tx = <<>> /\ call'.ret = Raised
C20_AddressErrorRaised == [][C20_AddressStep]_vars

\* the value the bytes of AtomicReads stand for at each integer or boolean
\* type (little-endian, the type's size and signedness)
AtomicValue(code) ==
    CASE code = CIP_BOOL -> Some(TRUE)
      [] code = CIP_SINT -> Some(-128)
      [] code = CIP_INT -> Some(-32768)
      [] code = CIP_DINT -> Some(-1)
      [] code = CIP_LINT -> Some(-2)
      [] code = CIP_USINT -> Some(200)
      [] code = CIP_UINT -> Some(65535)
      [] code = CIP_UDINT -> Some(65536)
      [] code = CIP_ULINT -> Some(7)

\* C21: for a successful Read Tag reply whose data_type is any atomic code
\* 0xC1..0xCB, read returns the value decoded at that type's size and
\* signedness, and never None
C21_DecodeStep ==
    (/\ kind = "Logix" /\ IsRead /\ drv.connected
     /\ call'.tx # <<>> /\ call'.tx[1].ok /\ call'.rx # <<>>)
        => \A r \in AtomicReads :
               call'.rx[1] = PlcTagReply(REPLY_READ_TAG, 0, pack_H(r.code) \o r.data,
                                         drv.use_routing)
                   => /\ call'.ret # None
                      /\ r.code \notin {CIP_REAL, CIP_LREAL}
                            => call'.ret = AtomicValue(r.code)
C21_DecodesEveryAtomic == [][C21_DecodeStep]_vars

-----------------------------------------------------------------------------
(* The session handle.                                                     *)

\* the command of an encapsulation packet and the session handle it carries
PktCommand(pkt) == unpack_H(Slice(pkt, 0, 2))
PktHandle(pkt) == unpack_I(Slice(pkt, 4, 8))
IsRequest(pkt) == PktCommand(pkt) \in {CMD_SEND_RR_DATA, CMD_SEND_UNIT_DATA}

\* C22: for both drivers, a Send RR Data or Send Unit Data request is
\* transmitted only when session_handle is non-zero, and connected = True
\* implies session_handle # 0, whatever the PLC answers to Register Session
C22_HandleStep ==
    /\ \A i \in 1..Len(call'.tx) :
          IsRequest(call'.tx[i].pkt)
              => (IF IsConnect THEN drv' ELSE drv).session_handle # U32Zero
    /\ drv'.connected => drv'.session_handle # U32Zero
C22_RequestsNeedSession == [][C22_HandleStep]_vars

-----------------------------------------------------------------------------
(* Late replies.  A reply the PLC sends after the recv of its request      *)
(* timed out stays in the socket's receive buffer (rcvbuf); the next recv  *)
(* on that socket returns it.  The PLC echoes the request's TNS after the  *)
(* CMD and STS bytes of its reply.                                         *)

\* an Execute PCCC reply to the request with transaction number tns
PlcTnsReply(tns, data) ==
    PlcRRReply(<<SVC_EXECUTE_PCCC + 128, 0, 0, 0>> \o <<7, 9, 16>> \o pack_I(SERIAL_FALLBACK)
                 \o <<PCCC_REPLY_CMD, 0>> \o pack_H(tns) \o data)

\* the PLC's reply to a read request packet
PlcReadReply(table, pkt) ==
    LET cip == From(pkt, 40)
    IN  PlcTnsReply(PcccTns(pkt), pack_H(table[ReqFile(cip)][ReqElement(cip)]))

\* when the reply to a request reaches the socket
Arrivals == {"in time", "late", "never"}

LateWords == {1, 7, 300}
LateTables ==
    { [ft \in {"N7", "B3"} |-> [e \in Elements |-> IF e = 0 THEN a ELSE b]] :
        a \in LateWords, b \in LateWords }

InitLate ==
    /\ kind = "SLC"
    /\ drv = ConnectedSLC.self
    /\ socks = ConnectedSLC.socks
    /\ plc \in LateTables
    /\ call = [op |-> "connect", args |-> <<>>, ret |-> Some(ConnectedSLC.ret),
               tx |-> ConnectedSLC.io.tx, rx |-> ConnectedSLC.io.rx]
    /\ sent_tns = <<>>
    /\ srv = ServerOff

\* read(file_type, element_number) on a socket whose receive buffer may
\* hold the reply to an earlier request
SLC_read_late_call ==
    /\ kind = "SLC"
    /\ drv.connected => drv.pccc_tns < MaxTns
    /\ \E file_type \in {"N7"}, element_number \in Elements, arrival \in Arrivals :
         LET cip == SLC_create_pccc_command(drv, file_type, file_numbers(file_type),
                                            element_number, 1)
             packet == SLC_create_send_rr_data(drv, cip)
             reply == PlcReadReply(plc, packet)
             buffered == socks[drv.socket].rcvbuf
             x == IF buffered # <<>> THEN Granted(buffered)
                  ELSE IF arrival = "in time" THEN Granted(reply)
                  ELSE [send |-> TRUE, recv |-> Raised]
             left == IF arrival = "never" \/ (buffered = <<>> /\ arrival = "in time")
                     THEN <<>> ELSE reply
             r == SLC_read(drv, socks, x, file_type, element_number, None, 1)
         IN  /\ drv' = r.self
             /\ socks' = [socks EXCEPT ![drv.socket].rcvbuf = left]
             /\ sent_tns' = sent_tns \o TnsOf(r.io.tx)
             /\ Called("read", [file_type |-> file_type,
                                element_number |-> element_number,
                                bit_number |-> None], r)
    /\ UNCHANGED <<srv, kind, plc>>

NextLate ==
    \/ SLC_read_late_call
    \/ SLC_disconnect_call

SpecLate == InitLate /\ [][NextLate]_vars

\* the transaction number echoed by an Execute PCCC reply
ReplyTns(reply) == unpack_H(Slice(reply, 53, 55))

\* C23: the reply consumed by a read call is the reply to the request that
\* call transmitted: it carries the request's TNS, and after a call timed
\* out a late reply is never returned as the result of a later call for a
\* different address
C23_MatchStep ==
    (kind = "SLC" /\ IsRead /\ drv.connected /\ call'.rx # <<>>)
        => /\ ReplyTns(call'.rx[1]) = PcccTns(call'.tx[1].pkt)
           /\ call'.ret # None
                => call'.ret = Some(WordValue(call'.args.file_type,
                                              plc[call'.args.file_type][call'.args.element_number],
                                              None))
C23_RepliesMatchRequests == [][C23_MatchStep]_vars

-----------------------------------------------------------------------------
(* The order of the packets of connect and disconnect.                     *)

\* C24: SLC.connect transmits Register Session, List Identity, Forward Open
\* in that order; Forward Open is never transmitted unless Register Session
\* succeeded, and a List Identity failure does not abort connect
C24_OrderStep ==
    (kind = "SLC" /\ IsConnect) =>
        LET tx == call'.tx
            registered == /\ tx # <<>> /\ tx[1].ok /\ call'.rx # <<>>
                          /\ RegisterGranted(call'.rx[1])
        IN  /\ Len(tx) <= 3
            /\ Len(tx) >= 1 => PktCommand(tx[1].pkt) = CMD_REGISTER_SESSION
            /\ Len(tx) >= 2 => PktCommand(tx[2].pkt) = CMD_LIST_IDENTITY
            /\ Len(tx) >= 3 => IsForwardOpen(tx[3].pkt)
            /\ (\E i \in 1..Len(tx) : IsForwardOpen(tx[i].pkt)) => registered
            /\ registered => Len(tx) = 3
C24_ConnectOrder == [][C24_OrderStep]_vars

\* a connect that succeeded although List Identity got no reply
C24_Witness ==
    /\ kind = "SLC" /\ call.op = "connect"
    /\ Len(call.tx) = 3 /\ Len(call.rx) = 2 /\ call.ret = Some(TRUE)

\* a Send RR Data packet whose CIP service is Forward Close
IsForwardClose(pkt) ==
    PktCommand(pkt) = CMD_SEND_RR_DATA /\ Len(pkt) > 40 /\ pkt[41] = SVC_FORWARD_CLOSE

\* C25: SLC.disconnect on a connected driver transmits Forward Close, then
\* Unregister Session, then closes the socket and sets connected to False,
\* whether or not the two packets could be sent or were answered
C25_DisconnectStep ==
    (kind = "SLC" /\ call'.op = "disconnect" /\ drv.connected) =>
        /\ Len(call'.tx) = 2
        /\ IsForwardClose(call'.tx[1].pkt)
        /\ PktCommand(call'.tx[2].pkt) = CMD_UNREGISTER_SESSION
        /\ ~socks'[drv.socket].open
        /\ ~drv'.connected
C25_DisconnectOrder == [][C25_DisconnectStep]_vars

-----------------------------------------------------------------------------
(* The connected-send sequence number: every public call of an SLC         *)
(* instance, from a new instance and from one that has made 65533          *)
(* connected sends.                                                        *)

InitSeq ==
    /\ kind = "SLC"
    /\ drv \in {SLC_init, [SLC_init EXCEPT !.conn_sequence = 65535]}
    /\ socks = <<>>
    /\ plc \in PlcTables({0})
    /\ call = [op |-> "init", args |-> <<>>, ret |-> None, tx |-> <<>>, rx |-> <<>>]
    /\ sent_tns = <<>>
    /\ srv = ServerOff

NextSeq ==
    \/ SLC_connect_call
    \/ SLC_disconnect_call
    \/ SLC_read_call({"N7"}, {0}, {None}, TRUE)
    \/ SLC_write_call({"N7"}, {0}, {None}, {1}, TRUE)
    \/ send_unit_data_call({<<7>>})

SpecSeq == InitSeq /\ [][NextSeq]_vars

\* the sequence number at the head of the 0xB1 item of a Send Unit Data packet
PktSequence(pkt) == unpack_H(Slice(pkt, 44, 46))

\* C26: conn_sequence starts at 2 and advances by exactly 1 modulo 65536 on
\* every send_unit_data call, failed sends and recvs included; the 0xB1 item
\* carries the value before the advance; read, write, connect and
\* disconnect leave conn_sequence unchanged
C26_SequenceStep ==
    /\ SLC_init.conn_sequence = 2
    /\ (kind = "SLC" /\ call'.op = "send_unit_data")
          => /\ drv'.conn_sequence = (drv.conn_sequence + 1) % 65536
             /\ call'.tx # <<>>
             /\ ItemType(call'.tx[1].pkt, 40) = ITEM_CONNECTED_DATA
             /\ PktSequence(call'.tx[1].pkt) = drv.conn_sequence
    /\ (kind = "SLC" /\ call'.op \in {"read", "write", "connect", "disconnect"})
          => drv'.conn_sequence = drv.conn_sequence
C26_ConnSequence == [][C26_SequenceStep]_vars

\* a send_unit_data whose send failed and that wrapped the sequence to 0
C26_Witness ==
    /\ kind = "SLC" /\ call.op = "send_unit_data"
    /\ ~call.tx[1].ok /\ PktSequence(call.tx[1].pkt) = 65535 /\ drv.conn_sequence = 0

\* C27: session_handle is 0 until Register Session succeeds, and after that
\* every encapsulation header the SLC driver transmits (List Identity, Send
\* RR Data, Send Unit Data, Unregister Session) carries the latched handle
C27_HandleEchoStep ==
    kind = "SLC" =>
        LET registered == /\ IsConnect /\ call'.tx # <<>> /\ call'.tx[1].ok
                          /\ call'.rx # <<>> /\ RegisterGranted(call'.rx[1])
        IN  /\ SLC_init.session_handle = U32Zero
            /\ ~registered => drv'.session_handle = drv.session_handle
            /\ \A i \in 1..Len(call'.tx) :
                  PktCommand(call'.tx[i].pkt)
                      \in {CMD_LIST_IDENTITY, CMD_SEND_RR_DATA, CMD_SEND_UNIT_DATA,
                           CMD_UNREGISTER_SESSION}
                    => PktHandle(call'.tx[i].pkt) = drv'.session_handle
C27_HandleEchoed == [][C27_HandleEchoStep]_vars

\* C28: after send_unit_data returns by any path (reply, short reply,
\* timeout, or any other send or recv error) the socket timeout equals its
\* value before the call
C28_TimeoutStep ==
    (kind = "SLC" /\ call'.op = "send_unit_data" /\ drv.socket # 0)
        => socks'[drv.socket].timeout = socks[drv.socket].timeout
C28_TimeoutRestored == [][C28_TimeoutStep]_vars

-----------------------------------------------------------------------------
(* The print server (src/printserveV2_2.py): the station setup loop, the   *)
(* Ethernet and PLC connect phases and the main service loop.  A driver    *)
(* object is its position in objects, which holds the plc_ip it was made   *)
(* for; connect_plc, the ping and the reads are outcomes of the network.   *)

\* the number of stations of params.sta explored
MaxStations == 3
PLC_MAX_RETRIES == 3
PlcIps == {"192.168.1.10", "192.168.1.11"}
RECURSIVE SeqsUpTo(_, _)
SeqsUpTo(S, n) ==
    IF n = 0 THEN {<<>>}
    ELSE SeqsUpTo(S, n - 1)
           \cup {Append(q, e) : q \in {q \in SeqsUpTo(S, n - 1) : Len(q) = n - 1}, e \in S}
\* params.sta: the plc_ip of each configured station
StationLists == SeqsUpTo(PlcIps, MaxStations)

\* the body of the setup loop that always makes a new driver object
station_setup_per_station(s) ==
    LET plc_ip == s.sta[s.idx + 1]
        obj == Len(s.objects) + 1
    IN  [s EXCEPT !.objects = Append(s.objects, plc_ip),
                  !.connects = Append(s.connects, 0),
                  !.plc_dict = [ip \in DOMAIN s.plc_dict \cup {plc_ip} |->
                                   IF ip = plc_ip THEN obj ELSE s.plc_dict[ip]],
                  !.station_to_plc = Append(s.station_to_plc, obj),
                  !.idx = s.idx + 1]

\* the body of the setup loop for station idx: one SLCComm per plc_ip not
\* yet in plc_dict, and the station mapped to plc_dict[plc_ip]
station_setup(s) ==
    LET plc_ip == s.sta[s.idx + 1]
        new == plc_ip \notin DOMAIN s.plc_dict
        obj == IF new THEN Len(s.objects) + 1 ELSE s.plc_dict[plc_ip]
    IN  [s EXCEPT !.objects = IF new THEN Append(s.objects, plc_ip) ELSE s.objects,
                  !.connects = IF new THEN Append(s.connects, 0) ELSE s.connects,
                  !.plc_dict = [ip \in DOMAIN s.plc_dict \cup {plc_ip} |->
                                   IF ip = plc_ip THEN obj ELSE s.plc_dict[ip]],
                  !.station_to_plc = Append(s.station_to_plc, obj),
                  !.idx = s.idx + 1]

InitServer ==
    /\ kind = "SLC"
    /\ drv = SLC_init
    /\ socks = <<>>
    /\ plc \in PlcTables({0})
    /\ call = [op |-> "init", args |-> <<>>, ret |-> None, tx |-> <<>>, rx |-> <<>>]
    /\ sent_tns = <<>>
    /\ \E sta \in StationLists :
         srv = [ServerOff EXCEPT !.pc = "setup", !.sta = sta,
                                 !.plc_dict = [ip \in {} |-> 0]]

\* one iteration of `for idx, station in enumerate(params.sta)`; print_obj
\* resolves the printer address and may raise, which ends the script
setup_station_step ==
    /\ srv.pc = "setup" /\ srv.idx < Len(srv.sta)
    /\ \E resolved \in BOOLEAN :
         srv' = IF resolved THEN station_setup(srv)
                ELSE [station_setup(srv) EXCEPT !.pc = "exit"]
    /\ UNCHANGED <<kind, drv, socks, plc, call, sent_tns>>

\* the Ethernet phase after the setup loop: connected within its retries, or
\* the script raises
connect_ethernet_step ==
    /\ srv.pc = "setup" /\ srv.idx = Len(srv.sta)
    /\ \E up \in BOOLEAN :
         srv' = [srv EXCEPT !.pc = IF ~up THEN "exit"
                                   ELSE IF DOMAIN srv.plc_dict = {} THEN "service"
                                   ELSE "connect",
                            !.pending = DOMAIN srv.plc_dict, !.idx = 0]
    /\ UNCHANGED <<kind, drv, socks, plc, call, sent_tns>>

\* one evaluation of `while not plc_obj.connect_plc()` in the loop over
\* plc_dict.items(), whose order the dict does not fix
connect_plc_step ==
    /\ srv.pc = "connect"
    /\ \E plc_ip \in IF srv.cur = None THEN srv.pending ELSE {srv.cur[1]}, ok \in BOOLEAN :
         LET obj == srv.plc_dict[plc_ip]
             retry_count == IF srv.cur = None THEN 0 ELSE srv.retry_count
             done == srv.pending \ {plc_ip}
             tried == [srv EXCEPT !.connects[obj] = @ + 1,
                                  !.last = [op |-> "connect_plc", station |-> 0,
                                            obj |-> obj]]
         IN  srv' = IF ok
                    THEN [tried EXCEPT !.cur = None, !.pending = done, !.retry_count = 0,
                                       !.pc = IF done = {} THEN "service" ELSE "connect"]
                    ELSE IF retry_count + 1 >= PLC_MAX_RETRIES
                    THEN [tried EXCEPT !.retry_count = retry_count + 1, !.pc = "exit"]
                    ELSE [tried EXCEPT !.retry_count = retry_count + 1,
                                       !.cur = Some(plc_ip)]
    /\ UNCHANGED <<kind, drv, socks, plc, call, sent_tns>>

\* one iteration of `for idx in range(obj_count)` of the main loop:
\* service_plc(station_to_plc[idx], printer_list[idx]), which returns at once
\* when the ping fails and otherwise reads the station's tag
service_step ==
    /\ srv.pc = "service" /\ srv.idx < Len(srv.sta)
    /\ \E reachable \in BOOLEAN :
         srv' = [srv EXCEPT !.last = [op |-> IF reachable THEN "read_tag" ELSE "ping",
                                      station |-> srv.idx,
                                      obj |-> srv.station_to_plc[srv.idx + 1]],
                            !.idx = srv.idx + 1]
    /\ UNCHANGED <<kind, drv, socks, plc, call, sent_tns>>

\* the rest of the `while True` body after the station loop: the periodic
\* test write through the first object of plc_dict, and the button that
\* ends the script in the web server
loop_tail_step ==
    /\ srv.pc = "service" /\ srv.idx = Len(srv.sta)
    /\ \E due \in BOOLEAN, button \in BOOLEAN,
          first \in IF srv.objects = <<>> THEN {0} ELSE 1..Len(srv.objects) :
         srv' = [srv EXCEPT !.last = IF due /\ first # 0
                                     THEN [op |-> "write_tag", station |-> 0, obj |-> first]
                                     ELSE @,
                            !.idx = 0,
                            !.pc = IF button THEN "exit" ELSE "service"]
    /\ UNCHANGED <<kind, drv, socks, plc, call, sent_tns>>

NextServer ==
    \/ setup_station_step
    \/ connect_ethernet_step
    \/ connect_plc_step
    \/ service_step
    \/ loop_tail_step

SpecServer == InitServer /\ [][NextServer]_vars

\* every station set up so far uses the one driver object made for its
\* plc_ip, and the station loop of the main loop goes through that object
OneDriverPerPlc ==
    LET n == Len(srv.station_to_plc)
    IN  /\ Len(srv.objects) = Cardinality({srv.sta[i] : i \in 1..n})
        /\ \A i \in 1..n :
              /\ srv.objects[srv.station_to_plc[i]] = srv.sta[i]
              /\ \A j \in 1..n : srv.sta[i] = srv.sta[j]
                                    <=> srv.station_to_plc[i] = srv.station_to_plc[j]
        /\ srv.last.op \in {"read_tag", "ping"}
              => /\ srv.last.obj = srv.plc_dict[srv.sta[srv.last.station + 1]]
                 /\ srv.idx \in {0, srv.last.station + 1}

-----------------------------------------------------------------------------
(* Extended status.                                                        *)

\* the extended-status size of a Send RR Data reply and the offset of the
\* byte after its extended-status words
ExtStatusSize(reply) == reply[44]
AfterExtStatus(reply) == 44 + 2 * ExtStatusSize(reply)

\* C30: the SLC driver skips the extended status of a Forward Open reply and
\* of a PCCC reply as a length byte followed by that many 16-bit words, so
\* the t_to_o_connection_id is read, and the PCCC scan starts, at the byte
\* right after the words
C30_ExtStatusStep ==
    kind = "SLC" =>
        /\ (IsConnect /\ Len(call'.tx) = 3 /\ call'.tx[3].ok /\ call'.rx # <<>>) =>
              LET reply == call'.rx[Len(call'.rx)]
              IN  (/\ PktCommand(reply) = CMD_SEND_RR_DATA /\ ForwardOpenGranted(reply)
                   /\ Len(reply) >= AfterExtStatus(reply) + 4)
                      => drv'.t_to_o_connection_id
                           = unpack_I(Slice(reply, AfterExtStatus(reply),
                                            AfterExtStatus(reply) + 4))
        /\ (IsRead /\ drv.connected /\ call'.rx # <<>>) =>
              LET reply == call'.rx[1]
                  data == pccc_scan(reply, AfterExtStatus(reply))
              IN  (Len(reply) >= 44 /\ reply[43] = 0) =>
                      call'.ret = IF data # None /\ Len(data[1]) >= 2
                                  THEN Some(read_value(call'.args.file_type, data[1],
                                                       call'.args.bit_number))
                                  ELSE None
C30_ExtStatusWords == [][C30_ExtStatusStep]_vars

-----------------------------------------------------------------------------
(* The parsers and codecs as functions of their arguments.                 *)

\* the number of bytes explored after the extended-status size byte
MaxTail == 6
\* the bytes that follow the extended-status size byte of a reply
ParseTails == SeqsUpTo({0, 16, PCCC_REPLY_CMD}, MaxTail)
\* Execute PCCC replies with general status 0 or 8 and extended-status size
\* 0 or 1, whole and cut short
ParseResponses ==
    LET whole == { PlcRRReply(<<SVC_EXECUTE_PCCC + 128, 0, status, n>> \o tail) :
                     status \in {0, CIP_ERROR}, n \in {0, 1}, tail \in ParseTails }
    IN  whole \cup { Slice(r, 0, k) : r \in whole, k \in {0, 9, 24, 43} }

\* the largest extended-status word count of a routed reply
MaxExtWords == 2
\* what follows the extended status of an Unconnected Send reply: an embedded
\* reply of either service or a request code, good or refused, with a whole
\* value, a cut one or none, or fewer than four bytes
EmbeddedReplies ==
    { <<service, 0, status, 0>> \o payload :
        service \in {REPLY_READ_TAG, REPLY_WRITE_TAG, SVC_READ_TAG},
        status \in {0, CIP_ERROR},
        payload \in {<<>>, <<CIP_INT>>, pack_H(CIP_INT) \o <<42, 0>>,
                     pack_H(CIP_BOOL) \o <<1>>} }
      \cup {<<>>, <<REPLY_READ_TAG>>, <<REPLY_WRITE_TAG, 0>>}
\* replies to a tag request: Unconnected Send replies with 0..MaxExtWords
\* extended-status words, each byte of them one filler, and direct replies
TagResponses ==
    { PlcRRReply(<<REPLY_UNCONNECTED_SEND, 0, status, n>> \o [i \in 1..(2 * n) |-> fill]
                   \o embedded) :
        status \in {0, CIP_ERROR}, n \in 0..MaxExtWords,
        fill \in {0, REPLY_READ_TAG, REPLY_WRITE_TAG}, embedded \in EmbeddedReplies }
      \cup { PlcRRReply(embedded) : embedded \in EmbeddedReplies }

\* the integers given to encode_value: the ends of the 1-, 2- and 4-byte
\* ranges, signed and unsigned, and their neighbours
CodecValues ==
    { 0 - 2147483647 - 1, -32769, -32768, -129, -128, -1, 0, 1, 127, 128, 255, 256,
      32767, 32768, 65535, 65536, 2147483647 }
\* the type codes given to encode_value: the integer types and one it refuses
CodecTypes ==
    { CIP_SINT, CIP_INT, CIP_DINT, CIP_LINT, CIP_USINT, CIP_UINT, CIP_UDINT, CIP_ULINT, 0 }

\* a new instance and the argument its next call is given
InitParse ==
    /\ kind \in {"SLC", "Logix"}
    /\ drv = IF kind = "SLC" THEN SLC_init ELSE ConnectedLogix(3, TRUE).self
    /\ socks = IF kind = "SLC" THEN <<>> ELSE ConnectedLogix(3, TRUE).socks
    /\ plc \in PlcTables({0})
    /\ \/ \E response \in IF kind = "SLC" THEN ParseResponses ELSE TagResponses :
            call = [op |-> "input", args |-> response, ret |-> None, tx |-> <<>>, rx |-> <<>>]
       \/ /\ kind = "Logix"
          /\ \E v \in CodecValues, t \in CodecTypes :
               call = [op |-> "value",
                       args |-> [value |-> [t |-> "int", v |-> v], force_type |-> Some(t)],
                       ret |-> None, tx |-> <<>>, rx |-> <<>>]
    /\ sent_tns = <<>>
    /\ srv = ServerOff

parse_pccc_response_call ==
    /\ kind = "SLC" /\ call.op = "input"
    /\ Built("parse_pccc_response", call.args, SLC_parse_pccc_response(call.args))
    /\ UNCHANGED <<srv, kind, drv, socks, plc, sent_tns>>

parse_read_response_call ==
    /\ kind = "Logix" /\ call.op = "input"
    /\ Built("parse_read_response", call.args, Logix_parse_read_response(call.args))
    /\ UNCHANGED <<srv, kind, drv, socks, plc, sent_tns>>

parse_write_response_call ==
    /\ kind = "Logix" /\ call.op = "input"
    /\ Built("parse_write_response", call.args, Some(Logix_parse_write_response(call.args)))
    /\ UNCHANGED <<srv, kind, drv, socks, plc, sent_tns>>

\* _read_tag_type(tag_name) when the PLC answers with the given reply
read_tag_type_call ==
    /\ kind = "Logix" /\ call.op = "input"
    /\ \E tag_name \in TagNames :
         LET r == Logix_read_tag_type(drv, socks, [send |-> TRUE, recv |-> call.args],
                                      tag_name)
         IN  call' = [op |-> "_read_tag_type", args |-> call.args, ret |-> r.ret,
                      tx |-> r.io.tx, rx |-> r.io.rx]
    /\ UNCHANGED <<srv, kind, drv, socks, plc, sent_tns>>

\* encode_value(value, force_type)
encode_value_call ==
    /\ kind = "Logix" /\ call.op = "value"
    /\ Built("encode_value", call.args, encode_value(call.args.value, call.args.force_type))
    /\ UNCHANGED <<srv, kind, drv, socks, plc, sent_tns>>

\* decode_value(data_type, data) of what encode_value returned
decode_value_call ==
    /\ kind = "Logix" /\ call.op = "encode_value" /\ call.ret.ok
    /\ Built("decode_value", [data_type |-> call.ret.type, data |-> call.ret.data],
             decode_value(call.ret.type, call.ret.data))
    /\ UNCHANGED <<srv, kind, drv, socks, plc, sent_tns>>

NextParse ==
    \/ parse_pccc_response_call
    \/ encode_value_call
    \/ decode_value_call
    \/ parse_read_response_call
    \/ parse_write_response_call
    \/ read_tag_type_call

SpecParse == InitParse /\ [][NextParse]_vars

RECURSIVE FirstCmd(_, _)
\* the offset of the first 0x4F at or after offset from, or Raise
FirstCmd(response, from) ==
    IF from >= Len(response) THEN Raise
    ELSE IF response[from + 1] = PCCC_REPLY_CMD THEN from
    ELSE FirstCmd(response, from + 1)

\* what a reply whose data item starts at offset 40 holds after skipping
\* skip bytes of extended status: the suffix 4 bytes after the first 0x4F
\* when the general status and the STS are 0 and data follows
PcccData(response, skip) ==
    LET pos == FirstCmd(response, 44 + skip)
    IN  IF Len(response) < 44 \/ response[43] # 0 THEN None
        ELSE IF pos = Raise \/ pos + 3 >= Len(response) THEN None
        ELSE IF response[pos + 4] # 0 THEN None
        ELSE IF pos + 4 >= Len(response) THEN None
        ELSE Some(From(response, pos + 4))

\* C31: for every response, parse_pccc_response returns None or the
\* non-empty suffix 4 bytes after the first 0x4F at or after the end of the
\* extended-status words, and only when the general status and the STS byte
\* are 0; a buffer that ends before the STS or before any data yields None
C31_ParseStep ==
    call'.op = "parse_pccc_response" =>
        LET response == call'.args
        IN  /\ call'.ret \in {None} \cup {Some(From(response, k)) : k \in 0..(Len(response) - 1)}
            /\ call'.ret = PcccData(response,
                                    IF Len(response) >= 44 THEN 2 * response[44] ELSE 0)
C31_ParseBounded == [][C31_ParseStep]_vars

\* the embedded reply of a routed response whose data item starts at offset
\* 40: it starts 4 + 2*n bytes into the item, n the byte at item start + 3
EmbeddedAt(response) == 44 + 2 * response[44]
\* the embedded reply is of the service wanted and its status is 0
EmbeddedGood(response, service) ==
    /\ Len(response) >= 44
    /\ Len(response) > EmbeddedAt(response) + 2
    /\ response[EmbeddedAt(response) + 1] = service
    /\ response[EmbeddedAt(response) + 3] = 0

\* C32: when the data item of a Logix reply starts with service 0xD2, the
\* read, write and type-detect parsers look for the embedded reply 4 + 2*n
\* bytes into the item, n being the extended-status word count at item start
\* + 3; a value, True or a data type is returned only if the embedded service
\* is 0xCC (read, type detect) or 0xCD (write) with embedded status 0, and it
\* is the one found there; otherwise read returns None and write False
C32_RoutedStep ==
    LET response == call'.args
        e == EmbeddedAt(response)
        routed == Len(response) >= 41 /\ response[41] = REPLY_UNCONNECTED_SEND
        data_type == unpack_H(Slice(response, e + 4, e + 6))
    IN  /\ call'.op = "parse_read_response" /\ routed =>
              /\ ~EmbeddedGood(response, REPLY_READ_TAG) => call'.ret = None
              /\ call'.ret # None =>
                    call'.ret = decode_value(data_type, From(response, e + 6))
        /\ call'.op = "parse_write_response" /\ routed =>
              call'.ret = Some(EmbeddedGood(response, REPLY_WRITE_TAG))
        /\ call'.op = "_read_tag_type" /\ routed =>
              /\ ~EmbeddedGood(response, REPLY_READ_TAG) => call'.ret = None
              /\ call'.ret # None => call'.ret = Some(data_type)
C32_RoutedReplies == [][C32_RoutedStep]_vars
\* a routed reply with one extended-status word gave its embedded value
C32_Witness ==
    /\ call.op = "parse_read_response"
    /\ Len(call.args) >= 44
    /\ call.args[41] = REPLY_UNCONNECTED_SEND
    /\ call.args[44] = 1
    /\ Len(call.args) >= 52 /\ call.args[51] = CIP_INT
    /\ call.ret = Some(42)

\* the size in bytes of an integer CIP type
IntegerSize(t) ==
    CASE t \in {CIP_SINT, CIP_USINT} -> 1
      [] t \in {CIP_INT, CIP_UINT} -> 2
      [] t \in {CIP_DINT, CIP_UDINT} -> 4
      [] t \in {CIP_LINT, CIP_ULINT} -> 8
\* v lies in the range of the integer CIP type t (v is a 32-bit integer here)
InRange(v, t) ==
    CASE t = CIP_SINT -> -128 <= v /\ v <= 127
      [] t = CIP_INT -> -32768 <= v /\ v <= 32767
      [] t = CIP_USINT -> 0 <= v /\ v <= 255
      [] t = CIP_UINT -> 0 <= v /\ v <= 65535
      [] t \in {CIP_UDINT, CIP_ULINT} -> 0 <= v
      [] t \in {CIP_DINT, CIP_LINT} -> TRUE
      [] OTHER -> FALSE

\* C33: for every integer type code t that encode_value accepts and every
\* integer v in t's range, encode_value(v, t) has the size of t and
\* decode_value(t, encode_value(v, t)) is v
C33_RoundTripStep ==
    /\ (call'.op = "encode_value"
          /\ InRange(call'.args.value.v, call'.args.force_type[1])) =>
            /\ call'.ret.ok
            /\ call'.ret.type = call'.args.force_type[1]
            /\ Len(call'.ret.data) = IntegerSize(call'.ret.type)
    /\ call'.op = "decode_value" /\ call.op = "encode_value" =>
            call'.ret = Some(call.args.value.v)
C33_RoundTrip == [][C33_RoundTripStep]_vars

-----------------------------------------------------------------------------
(* Reconnecting.  A program calls connect() again on an instance that has   *)
(* connected or tried to before, with or without disconnect() in between.   *)

\* the number of sockets an instance creates
MaxConnects == 2

NextReconnect ==
    \/ SLC_connect_within(MaxConnects)
    \/ SLC_disconnect_call
    \/ SLC_read_call({"N7"}, {0}, {None}, FALSE)
    \/ Logix_connect_within(MaxConnects)
    \/ Logix_disconnect_call
    \/ Logix_read_call(TagReadPayloads)

SpecReconnect == Init /\ [][NextReconnect]_vars

\* C34: after any call to connect() that returns False, also one issued
\* while the driver is connected, connected is False, so that a read or
\* write after it transmits nothing
C34_FailedConnectStep ==
    /\ (call'.op = "connect" /\ call'.ret = Some(FALSE)) => ~drv'.connected
    /\ (call.op = "connect" /\ call.ret = Some(FALSE) /\ call'.op \in {"read", "write"})
          => call'.tx = <<>>
C34_FailedConnect == [][C34_FailedConnectStep]_vars

\* C35: a driver instance holds at most one open socket: over any sequence
\* of connect and disconnect calls, every socket the driver opened other
\* than the current one has been closed
C35_OneOpenSocket ==
    \A i \in 1..Len(socks) : i # drv.socket => ~socks[i].open

\* C36: after Logix.disconnect returns, connected is False and the socket
\* is closed and released, whether sending Unregister Session succeeded or
\* raised
C36_LogixDisconnectStep ==
    (kind = "Logix" /\ call'.op = "disconnect") =>
        /\ ~drv'.connected
        /\ drv'.socket = 0
        /\ drv.socket # 0 => ~socks'[drv.socket].open
C36_LogixDisconnect == [][C36_LogixDisconnectStep]_vars

\* C37: a disconnect() that follows a failed connect() of an SLC instance
\* transmits a Forward Close only if the Forward Open of that connect was
\* granted, and an Unregister Session only with the handle that connect was
\* granted on its socket
C37_DisconnectStep ==
    (kind = "SLC" /\ call.op = "connect" /\ call.ret = Some(FALSE)
       /\ call'.op = "disconnect") =>
        \A i \in 1..Len(call'.tx) :
          LET pkt == call'.tx[i].pkt
          IN  /\ IsForwardClose(pkt) =>
                    /\ call.rx # <<>>
                    /\ ForwardOpenGranted(call.rx[Len(call.rx)])
              /\ PktCommand(pkt) = CMD_UNREGISTER_SESSION =>
                    /\ call.rx # <<>>
                    /\ RegisterGranted(call.rx[1])
                    /\ PktHandle(pkt) = HandleOf(call.rx[1])
C37_DisconnectAfterFailure == [][C37_DisconnectStep]_vars

\* an Execute PCCC request, and how many of them a call handed to send()
IsPccc(pkt) ==
    PktCommand(pkt) = CMD_SEND_RR_DATA /\ Len(pkt) > 40 /\ pkt[41] = SVC_EXECUTE_PCCC
Transmitted(tx) == Cardinality({ i \in 1..Len(tx) : IsPccc(tx[i].pkt) })

\* C38: pccc_tns advances by exactly one per PCCC request that is
\* transmitted and is unchanged by an SLC call that transmits nothing, so
\* the k-th transmitted request of an instance carries TNS k mod 65536
C38_TnsStep ==
    kind = "SLC" =>
        /\ drv'.pccc_tns = (drv.pccc_tns + Transmitted(call'.tx)) % 65536
        /\ \A k \in 1..Len(sent_tns') : sent_tns'[k] = k % 65536
C38_TnsPerRequest == [][C38_TnsStep]_vars

-----------------------------------------------------------------------------
(* service_plc of the print server: one PLC/printer pair is serviced once  *)
(* per pass of the main loop.  The PLC, the printer and the driver object   *)
(* (plc_obj.read_tag, plc_obj.write_tag) are the environment: a call may    *)
(* return, return None or raise, and a write may or may not reach the tag.  *)

\* the number of passes of the main loop explored
MaxCycles == 2
RESET_MAX_RETRIES == 3      \* max_retries of the reset loop
ZPL_LISTS == 3              \* len(params.zpl)
LABEL_LIST_LEN == 11        \* len(params.zpl[1]): the place holder and ten labels
\* the values the PLC program puts in the tag: no request, the first and the
\* last label, and two values outside the list
PlcTagValues == {-1, 0, 1, LABEL_LIST_LEN - 1, LABEL_LIST_LEN}
\* what plc_obj.read_tag returns when the tag holds v: the value, None, or
\* it raises
ReadTagOutcomes(v) == {Some(v), None, Raised}

\* srv during service_plc: pc is the position in the function, tag the value
\* in the PLC, label_list the list number of print_obj; value, reset_value
\* and retry_count are the locals; writes counts the write_tag calls of this
\* pass and sent tells that sendall and close returned
InitService ==
    /\ kind = "SLC"
    /\ drv = SLC_init
    /\ socks = <<>>
    /\ plc \in PlcTables({0})
    /\ call = [op |-> "init", args |-> <<>>, ret |-> None, tx |-> <<>>, rx |-> <<>>]
    /\ sent_tns = <<>>
    /\ \E tag \in PlcTagValues, label_list \in {1, ZPL_LISTS} :
         srv = [pc |-> "read", tag |-> tag, label_list |-> label_list, value |-> None,
                reset_value |-> None, retry_count |-> 0, writes |-> 0, sent |-> FALSE,
                cycle |-> 1]

\* the loop test `while reset_value != 0` alone
reset_continues_unbounded(reset_value, retry_count) ==
    reset_value # Some(0)
\* the loop test `while reset_value != 0 and retry_count < max_retries`; None
\* is not equal to 0
reset_continues(reset_value, retry_count) ==
    reset_value # Some(0) /\ retry_count < RESET_MAX_RETRIES

\* from the ping to the range check: where service_plc goes after read_tag
\* returned value
after_read(value, label_list) ==
    IF value = None \/ value = Some(0) THEN "done"
    ELSE IF label_list >= ZPL_LISTS THEN "done"
    ELSE IF value[1] < 1 \/ value[1] >= LABEL_LIST_LEN THEN "range_reset"
    ELSE "print"

\* the ping and the first read_tag
service_read_step ==
    /\ srv.pc = "read"
    /\ \E reachable \in BOOLEAN, got \in ReadTagOutcomes(srv.tag) :
         srv' = IF ~reachable \/ got = Raised THEN [srv EXCEPT !.pc = "done"]
                ELSE [srv EXCEPT !.value = got, !.pc = after_read(got, srv.label_list)]
    /\ UNCHANGED <<kind, drv, socks, plc, call, sent_tns>>

\* write_tag(file_type, element_num, 0) for a value outside the list, then
\* return; stored: the write reached the tag
service_range_reset_step ==
    /\ srv.pc = "range_reset"
    /\ \E stored \in BOOLEAN :
         srv' = [srv EXCEPT !.writes = @ + 1, !.tag = IF stored THEN 0 ELSE @,
                            !.pc = "done"]
    /\ UNCHANGED <<kind, drv, socks, plc, call, sent_tns>>

\* socket, connect, sendall, close: any of them may raise OSError, which
\* ends the pass; otherwise the reset loop is entered with retry_count 0
service_print_step ==
    /\ srv.pc = "print"
    /\ \E printed \in BOOLEAN :
         srv' = IF ~printed THEN [srv EXCEPT !.pc = "done"]
                ELSE [srv EXCEPT !.sent = TRUE, !.retry_count = 0,
                                 !.reset_value = srv.value,
                                 !.pc = IF reset_continues(srv.value, 0)
                                        THEN "reset_write" ELSE "done"]
    /\ UNCHANGED <<kind, drv, socks, plc, call, sent_tns>>

\* the write_tag of one pass of the reset loop; it may raise
service_reset_write_step ==
    /\ srv.pc = "reset_write"
    /\ \E stored \in BOOLEAN, raised \in BOOLEAN :
         srv' = [srv EXCEPT !.writes = @ + 1,
                            !.tag = IF stored /\ ~raised THEN 0 ELSE @,
                            !.pc = IF raised THEN "done" ELSE "reset_read"]
    /\ UNCHANGED <<kind, drv, socks, plc, call, sent_tns>>

\* the read back of one pass of the reset loop, retry_count += 1 and the
\* loop test
service_reset_read_step ==
    /\ srv.pc = "reset_read"
    /\ \E got \in ReadTagOutcomes(srv.tag) :
         srv' = IF got = Raised THEN [srv EXCEPT !.pc = "done"]
                ELSE [srv EXCEPT !.reset_value = got, !.retry_count = @ + 1,
                                 !.pc = IF reset_continues(got, srv.retry_count + 1)
                                        THEN "reset_write" ELSE "done"]
    /\ UNCHANGED <<kind, drv, socks, plc, call, sent_tns>>

\* the next pass of the main loop calls service_plc again; the PLC program
\* may have changed the tag in between
service_again_step ==
    /\ srv.pc = "done" /\ srv.cycle < MaxCycles
    /\ \E tag \in {srv.tag} \cup PlcTagValues :
         srv' = [srv EXCEPT !.pc = "read", !.tag = tag, !.value = None,
                            !.reset_value = None, !.retry_count = 0, !.writes = 0,
                            !.sent = FALSE, !.cycle = @ + 1]
    /\ UNCHANGED <<kind, drv, socks, plc, call, sent_tns>>

NextService ==
    \/ service_read_step
    \/ service_range_reset_step
    \/ service_print_step
    \/ service_reset_write_step
    \/ service_reset_read_step
    \/ service_again_step

SpecService == InitService /\ [][NextService]_vars
\* every call of the function returns or raises: a pass that can take a step
\* takes one
SpecServiceLive == SpecService /\ WF_vars(NextService)

\* the value read is no index of a label of the list
OutOfRange(value) == value # None /\ (value[1] < 1 \/ value[1] >= LABEL_LIST_LEN)

\* C39: in service_plc the tag is written to 0 only after the label was
\* sent to the printer, or when the value is out of range for the label list
\* (then nothing is printed); a printer failure ends the pass with the tag
\* as it was; the reset loop issues at most 3 writes, stops as soon as a
\* read back returns 0, and every pass comes to its end
C39_ServiceStep ==
    /\ (srv'.cycle = srv.cycle /\ srv'.writes > srv.writes) =>
          \/ srv.sent
          \/ OutOfRange(srv.value) /\ srv.value # Some(0) /\ srv'.pc = "done"
    /\ (srv.pc = "print" /\ ~srv'.sent) =>
          srv'.pc = "done" /\ srv'.writes = 0 /\ srv'.tag = srv.tag /\ srv.tag # 0
    /\ (srv.pc = "reset_read" /\ srv'.reset_value = Some(0)) => srv'.pc = "done"
C39_ResetAfterPrint ==
    /\ [][C39_ServiceStep]_vars
    /\ [](srv.writes <= RESET_MAX_RETRIES)
    /\ [](OutOfRange(srv.value) => ~srv.sent)
    /\ (srv.pc # "done") ~> (srv.pc = "done")
\* a pass that printed and wrote three times without reading back a 0
C39_Witness ==
    /\ srv.pc = "done" /\ srv.sent
    /\ srv.writes = RESET_MAX_RETRIES /\ srv.reset_value # Some(0)
====
